---- MODULE Spec2Model ----
(***************************************************************************)
(* A model of the validation engine of common-library                     *)
(* (crates/common-library/src/validation): the SchemaValidator, the       *)
(* SchemaRegistry, the DataIntegrityChecker, the TypeValidator and the    *)
(* ValidationErrorReporter, and of http's RateLimiter and RetryExecutor.   *)
(* Each object is a group                                                  *)
(* of variables, each public method an action; the value a call returns   *)
(* is kept in a "result" variable of its object, next to the arguments    *)
(* of the call.  Times (validation_time_ms, check_time_ms, created_at,    *)
(* updated_at), log lines, and the message and suggestion texts of the    *)
(* error records are left out: no control flow reads them.                *)
(***************************************************************************)
EXTENDS Integers, Sequences, FiniteSets, TLC

VARIABLES
    checksums,          \* DataIntegrityChecker.checksums: key -> checksum string
    constraints,        \* DataIntegrityChecker.constraints: Vec<IntegrityConstraint>
    integrity_result,   \* the last call on the checker and what it returned
    registry_schemas,   \* SchemaRegistry.schemas: "name:version" -> SchemaMetadata
    versions,           \* SchemaRegistry.versions: name -> Vec<SchemaVersion>
    tags,               \* SchemaRegistry.tags: tag -> Vec<name>
    registry_result,    \* the last call on the registry and what it returned
    registration_log,   \* history: for each name, the versions registered under it
                        \* and not removed since, in the order of registration
    validator_schemas,  \* SchemaValidator.schemas: name -> schema document
    validation_result,  \* the last call on the validator and what it returned
    type_registry,      \* TypeValidator.type_registry: name -> TypeDefinition
    type_constraints,   \* TypeValidator.constraints, in the order they were added
    type_result,        \* the last call on the TypeValidator and what it returned
    requests_per_minute, \* RateLimiter.requests_per_minute
    semaphore,          \* RateLimiter.semaphore: the permits available
    last_reset,         \* RateLimiter.last_reset, in seconds
    now,                \* the clock (Instant::now()), in seconds
    acquire_pc,         \* where each task stands in RateLimiter::acquire
    completed,          \* history: the times at which calls of acquire returned
    max_retries,        \* RetryConfig.max_retries
    retry_pc,           \* where RetryExecutor::execute stands
    attempt,            \* execute: attempt
    last_error,         \* execute: last_error
    calls,              \* history: the outcomes of the calls of the operation
    retry_result,       \* what the last call on the retry module returned
    reporter_errors,    \* ValidationErrorReporter.errors
    engine_patterns,    \* SuggestionEngine.patterns of an engine of its own
    reporter_result     \* the last call on the reporter or the engine and its result

integrity_vars == <<checksums, constraints, integrity_result>>

registry_vars == <<registry_schemas, versions, tags, registry_result, registration_log>>

validator_vars == <<validator_schemas, validation_result>>

types_vars == <<type_registry, type_constraints, type_result>>

limiter_vars ==
    <<requests_per_minute, semaphore, last_reset, now, acquire_pc, completed>>

retry_vars == <<max_retries, retry_pc, attempt, last_error, calls, retry_result>>

http_vars == <<limiter_vars, retry_vars>>

reporter_vars == <<reporter_errors, engine_patterns, reporter_result>>

vars == <<checksums, constraints, integrity_result,
          registry_schemas, versions, tags, registry_result, registration_log,
          validator_schemas, validation_result,
          type_registry, type_constraints, type_result,
          requests_per_minute, semaphore, last_reset, now, acquire_pc, completed,
          max_retries, retry_pc, attempt, last_error, calls, retry_result,
          reporter_errors, engine_patterns, reporter_result>>

(***************************************************************************)
(* serde_json::Value.  A value is a record tagged by k; the tag is the    *)
(* type name SchemaValidator::validate_type gives the variant.  Numbers   *)
(* are integers (as_f64 is defined for every number, as_u64 for the       *)
(* non-negative ones); an object is a function from its keys, which the   *)
(* map of serde_json iterates in ascending key order.                     *)
(***************************************************************************)
Null == [k |-> "null"]
Bool(b) == [k |-> "boolean", b |-> b]
Num(n) == [k |-> "number", n |-> n]
Str(s) == [k |-> "string", s |-> s]
Arr(a) == [k |-> "array", a |-> a]
Obj(o) == [k |-> "object", o |-> o]
EmptyObj == Obj([x \in {} |-> Null])

\* Option<T>: None, or the value itself.
None == [k |-> "None"]
IsSome(v) == v # None

\* Result<T>: Ok(value) or Err(Error::validation(message)); () is Unit.
Unit == [k |-> "unit"]
Ok(value) == [ok |-> TRUE, value |-> value, error |-> ""]
Err(message) == [ok |-> FALSE, value |-> None, error |-> message]

\* HashMap: a function from the keys present.
EmptyMap == [x \in {} |-> None]
map_insert(map, key, value) ==
    [x \in DOMAIN map \cup {key} |-> IF x = key THEN value ELSE map[x]]
map_remove(map, key) == [x \in DOMAIN map \ {key} |-> map[x]]

is_null(v) == v.k = "null"
is_boolean(v) == v.k = "boolean"
is_object(v) == v.k = "object"
is_array(v) == v.k = "array"
is_string(v) == v.k = "string"
is_number(v) == v.k = "number"
is_u64(v) == v.k = "number" /\ v.n >= 0

\* Value::get(key): the member of an object, None for anything else.
get(v, key) ==
    IF is_object(v) /\ key \in DOMAIN v.o THEN v.o[key] ELSE None

\* Every object key of the model, in ascending (byte) order: the order in
\* which serde_json's map yields the keys of an object.
KeyOrder ==
    <<"a", "age", "b", "id", "name", "test", "user">>

keys(v) == SelectSeq(KeyOrder, LAMBDA key : key \in DOMAIN v.o)

Max(a, b) == IF a >= b THEN a ELSE b

RECURSIVE SeqSum(_)
SeqSum(s) == IF s = <<>> THEN 0 ELSE Head(s) + SeqSum(Tail(s))

(***************************************************************************)
(* str helpers of the standard library, on TLA+ strings.                  *)
(***************************************************************************)
starts_with(s, p) == Len(s) >= Len(p) /\ SubSeq(s, 1, Len(p)) = p

contains(s, c) == \E i \in 1..Len(s) : SubSeq(s, i, i) = c

\* Position of the first occurrence of the character c in s, 0 when absent.
find(s, c) ==
    IF contains(s, c)
    THEN CHOOSE i \in 1..Len(s) :
            /\ SubSeq(s, i, i) = c
            /\ \A j \in 1..(i - 1) : SubSeq(s, j, j) # c
    ELSE 0

\* s.split(c).collect(): the pieces between the occurrences of c.
RECURSIVE split(_, _)
split(s, c) ==
    LET i == find(s, c) IN
    IF i = 0 THEN <<s>>
    ELSE <<SubSeq(s, 1, i - 1)>> \o split(SubSeq(s, i + 1, Len(s)), c)

(***************************************************************************)
(* DataIntegrityChecker (validation/integrity.rs)                          *)
(***************************************************************************)

\* At most this many constraints are added to one checker.
MaxConstraints == 2

\* The documents handed to check_integrity.
IntegrityDocs ==
    { Obj([name |-> Str("John"), age |-> Num(30)]),
      Obj([name |-> Str("John"), age |-> Num(150)]),
      Obj([name |-> Null, age |-> Num(150)]),
      Obj([test |-> Str("data")]),
      Obj([user |-> Obj([age |-> Num(-1)])]),
      Null }

\* The keys under which checksums are kept and documents are checked.
IntegrityKeys == {"test_data", "test"}

IntegrityViolation(type, path, severity) ==
    [violation_type |-> type, path |-> path, severity |-> severity]

IntegrityConstraint(name, type, path, value, severity) ==
    [name |-> name, constraint_type |-> type, path |-> path,
     value |-> value, severity |-> severity]

\* The constraints handed to add_constraint.
ConstraintPool ==
    { IntegrityConstraint("age_constraint", "Range", "age",
                          Obj([min |-> Num(0), max |-> Num(120)]), "High"),
      IntegrityConstraint("name_set", "NotNull", "name", None, "Critical"),
      IntegrityConstraint("name_fk", "ForeignKey", "name", Str("John"), "Low"),
      IntegrityConstraint("name_email", "Format", "name", Str("email"), "Medium"),
      IntegrityConstraint("doc_unique", "Unique", "root", None, "High"),
      IntegrityConstraint("user_age", "Range", "user.age",
                          Obj([min |-> Num(0)]), "Medium"),
      IntegrityConstraint("custom", "Custom", "", None, "Critical") }

HexDigits ==
    <<"0", "1", "2", "3", "4", "5", "6", "7", "8", "9", "a", "b", "c", "d", "e", "f">>

\* format!("{:x}", n)
RECURSIVE hex(_)
hex(n) ==
    IF n < 16 THEN HexDigits[n + 1]
    ELSE hex(n \div 16) \o HexDigits[(n % 16) + 1]

\* DefaultHasher::new() has fixed keys, so the hash is a function of the
\* document alone.  The model keeps that, and gives the documents of the model
\* hashes that differ from each other: each hashes to a number read off its
\* shape (a collision of the 64-bit hash among them is not modelled).
RECURSIVE hasher_finish(_)
hasher_finish(data) ==
    CASE is_null(data) -> 1
      [] is_boolean(data) -> IF data.b THEN 3 ELSE 2
      [] is_number(data) -> 5 + ((data.n + 1000) % 1000)
      [] is_string(data) -> 7 + Len(data.s)
      [] is_array(data) -> 11 + Len(data.a)
      [] is_object(data) ->
            LET ks == keys(data)
                member(i) == (i + Len(ks[i])) * (hasher_finish(data.o[ks[i]]) % 4099)
            IN  (13 + SeqSum([i \in 1..Len(ks) |-> member(i)])) % 65521

calculate_checksum(data) == hex(hasher_finish(data))

\* The checksum strings handed to add_checksum: the one of the test, and the
\* checksum a caller computed for a known document.
ChecksumPool ==
    { "abc123",
      calculate_checksum(Obj([name |-> Str("John"), age |-> Num(30)])) }

\* get_value_by_path: "root" is the document; any other path is split at
\* the dots and followed through object members.
RECURSIVE walk_path(_, _)
walk_path(current, parts) ==
    IF parts = <<>> THEN current
    ELSE IF is_object(current) /\ Head(parts) \in DOMAIN current.o
         THEN walk_path(current.o[Head(parts)], Tail(parts))
         ELSE None

get_value_by_path(data, path) ==
    IF path = "root" THEN data ELSE walk_path(data, split(path, "."))

\* A not-null check that takes an absent field for a null one.
check_not_null_constraint_absent_is_null(data, constraint) ==
    LET value == get_value_by_path(data, constraint.path) IN
    IF ~IsSome(value) \/ is_null(value)
    THEN IntegrityViolation("NullConstraintViolation", constraint.path,
                            constraint.severity)
    ELSE None

check_not_null_constraint(data, constraint) ==
    LET value == get_value_by_path(data, constraint.path) IN
    IF IsSome(value) /\ is_null(value)
    THEN IntegrityViolation("NullConstraintViolation", constraint.path,
                            constraint.severity)
    ELSE None

check_unique_constraint(data, constraint) ==
    LET value == get_value_by_path(data, constraint.path) IN
    IF IsSome(value) /\ is_null(value)
    THEN IntegrityViolation("DuplicateKeyViolation", constraint.path,
                            constraint.severity)
    ELSE None

check_foreign_key_constraint(data, constraint) ==
    LET value == get_value_by_path(data, constraint.path) IN
    IF IsSome(value) /\ IsSome(constraint.value) /\ value # constraint.value
    THEN IntegrityViolation("ReferentialIntegrityViolation", constraint.path,
                            constraint.severity)
    ELSE None

\* constraint_value.get(bound).and_then(|v| v.as_f64())
range_bound(constraint_value, bound) ==
    LET v == get(constraint_value, bound) IN
    IF IsSome(v) /\ is_number(v) THEN v ELSE None

check_range_constraint(data, constraint) ==
    LET value == get_value_by_path(data, constraint.path)
        violation == IntegrityViolation("RangeViolation", constraint.path,
                                        constraint.severity)
    IN
    IF IsSome(value) /\ is_number(value) /\ IsSome(constraint.value)
    THEN LET min_value == range_bound(constraint.value, "min")
             max_value == range_bound(constraint.value, "max")
         IN  IF IsSome(min_value) /\ value.n < min_value.n THEN violation
             ELSE IF IsSome(max_value) /\ value.n > max_value.n THEN violation
             ELSE None
    ELSE None

is_valid_email(email) == contains(email, "@") /\ contains(email, ".")

is_valid_url(url) == starts_with(url, "http://") \/ starts_with(url, "https://")

\* chrono's RFC 3339 parser and uuid's parser, on the strings of the model.
is_valid_date(date) == date \in {"2024-01-01T00:00:00Z"}

is_valid_uuid(uuid) == uuid \in {"67e55044-10b1-426f-9247-bb680e5fe0c8"}

validate_format(value, format) ==
    CASE format = "email" -> is_valid_email(value)
      [] format = "url" -> is_valid_url(value)
      [] format = "date" -> is_valid_date(value)
      [] format = "uuid" -> is_valid_uuid(value)
      [] OTHER -> TRUE

check_format_constraint(data, constraint) ==
    LET value == get_value_by_path(data, constraint.path) IN
    IF /\ IsSome(value) /\ is_string(value)
       /\ IsSome(constraint.value) /\ is_string(constraint.value)
       /\ ~validate_format(value.s, constraint.value.s)
    THEN IntegrityViolation("FormatViolation", constraint.path, constraint.severity)
    ELSE None

check_custom_constraint(data, constraint) == None

check_constraint(data, constraint) ==
    CASE constraint.constraint_type = "NotNull" ->
            check_not_null_constraint(data, constraint)
      [] constraint.constraint_type = "Unique" ->
            check_unique_constraint(data, constraint)
      [] constraint.constraint_type = "ForeignKey" ->
            check_foreign_key_constraint(data, constraint)
      [] constraint.constraint_type = "Range" ->
            check_range_constraint(data, constraint)
      [] constraint.constraint_type = "Format" ->
            check_format_constraint(data, constraint)
      [] constraint.constraint_type = "Custom" ->
            check_custom_constraint(data, constraint)

has_circular_reference(data) == FALSE

\* The duplicate-key scan: one violation for each key the set of seen keys
\* already holds when the key comes up.
RECURSIVE duplicate_keys(_, _)
duplicate_keys(ks, seen_keys) ==
    IF ks = <<>> THEN <<>>
    ELSE (IF Head(ks) \in seen_keys
          THEN <<IntegrityViolation("DuplicateKeyViolation", "root", "Medium")>>
          ELSE <<>>)
         \o duplicate_keys(Tail(ks), seen_keys \cup {Head(ks)})

check_data_consistency(data) ==
    (IF is_object(data) THEN duplicate_keys(keys(data), {}) ELSE <<>>)
    \o (IF has_circular_reference(data)
        THEN <<IntegrityViolation("DataConsistencyViolation", "root", "High")>>
        ELSE <<>>)

\* What one violation takes off the score.
penalty(severity) ==
    CASE severity = "Low" -> 5
      [] severity = "Medium" -> 15
      [] severity = "High" -> 30
      [] severity = "Critical" -> 50

RECURSIVE subtract_penalties(_, _)
subtract_penalties(score, violations) ==
    IF violations = <<>> THEN score
    ELSE subtract_penalties(score - penalty(Head(violations).severity),
                            Tail(violations))

\* calculate_consistency_score without the floor at 0.
calculate_consistency_score_unfloored(violations) ==
    subtract_penalties(100, violations)

calculate_consistency_score(violations) ==
    IF violations = <<>> THEN 100
    ELSE Max(subtract_penalties(100, violations), 0)

\* The violations of the registration_log constraints, in the order of the list.
RECURSIVE check_constraints(_, _)
check_constraints(data, cs) ==
    IF cs = <<>> THEN <<>>
    ELSE LET violation == check_constraint(data, Head(cs)) IN
         (IF IsSome(violation) THEN <<violation>> ELSE <<>>)
         \o check_constraints(data, Tail(cs))

\* check_integrity with is_valid taken from the constraint violations alone.
IntegrityResultOf_checksum_ignored(data, key) ==
    LET mismatch == /\ key \in DOMAIN checksums
                    /\ calculate_checksum(data) # checksums[key]
        found == check_constraints(data, constraints) \o check_data_consistency(data)
        violations ==
            (IF mismatch
             THEN <<IntegrityViolation("ChecksumMismatch", "root", "Critical")>>
             ELSE <<>>) \o found
    IN  [is_valid |-> found = <<>>,
         violations |-> violations,
         checksum_valid |-> ~mismatch,
         consistency_score |-> calculate_consistency_score(violations)]

\* The IntegrityResult of check_integrity(data, key) on the checker as it is.
IntegrityResultOf(data, key) ==
    LET mismatch == /\ key \in DOMAIN checksums
                    /\ calculate_checksum(data) # checksums[key]
        violations ==
            (IF mismatch
             THEN <<IntegrityViolation("ChecksumMismatch", "root", "Critical")>>
             ELSE <<>>)
            \o check_constraints(data, constraints)
            \o check_data_consistency(data)
    IN  [is_valid |-> violations = <<>>,
         violations |-> violations,
         checksum_valid |-> ~mismatch,
         consistency_score |-> calculate_consistency_score(violations)]

NoIntegrityResult ==
    [is_valid |-> TRUE, violations |-> <<>>, checksum_valid |-> TRUE,
     consistency_score |-> 100]

IntegrityCall(op, key, data, result) ==
    [op |-> op, key |-> key, data |-> data, result |-> result]

IntegrityInit ==
    /\ checksums = EmptyMap
    /\ constraints = <<>>
    /\ integrity_result = IntegrityCall("new", "", Null, NoIntegrityResult)

add_checksum(key, checksum) ==
    /\ checksums' = map_insert(checksums, key, checksum)
    /\ integrity_result' = IntegrityCall("add_checksum", key, Null, NoIntegrityResult)
    /\ UNCHANGED <<constraints, registry_vars, validator_vars, types_vars, http_vars, reporter_vars>>

add_constraint(constraint) ==
    /\ Len(constraints) < MaxConstraints
    /\ constraints' = Append(constraints, constraint)
    /\ integrity_result' = IntegrityCall("add_constraint", "", Null, NoIntegrityResult)
    /\ UNCHANGED <<checksums, registry_vars, validator_vars, types_vars, http_vars, reporter_vars>>

check_integrity(data, key) ==
    /\ integrity_result' =
            IntegrityCall("check_integrity", key, data, IntegrityResultOf(data, key))
    /\ UNCHANGED <<checksums, constraints, registry_vars, validator_vars, types_vars, http_vars, reporter_vars>>

clear_checksums ==
    /\ checksums' = EmptyMap
    /\ integrity_result' = IntegrityCall("clear_checksums", "", Null, NoIntegrityResult)
    /\ UNCHANGED <<constraints, registry_vars, validator_vars, types_vars, http_vars, reporter_vars>>

clear_constraints ==
    /\ constraints' = <<>>
    /\ integrity_result' = IntegrityCall("clear_constraints", "", Null, NoIntegrityResult)
    /\ UNCHANGED <<checksums, registry_vars, validator_vars, types_vars, http_vars, reporter_vars>>

IntegrityNext ==
    \/ \E key \in IntegrityKeys, checksum \in ChecksumPool : add_checksum(key, checksum)
    \/ \E constraint \in ConstraintPool : add_constraint(constraint)
    \/ \E data \in IntegrityDocs, key \in IntegrityKeys : check_integrity(data, key)
    \/ clear_checksums
    \/ clear_constraints

(***************************************************************************)
(* SchemaRegistry (validation/registry.rs)                                 *)
(***************************************************************************)

\* At most this many entries are kept in the version history of one name.
MaxVersions == 2

SchemaMetadata(name, version, schema, tag_list, dependencies) ==
    [name |-> name, version |-> version, schema |-> schema, tags |-> tag_list,
     dependencies |-> dependencies, is_deprecated |-> FALSE]

SchemaVersion(version, schema) ==
    [version |-> version, schema |-> schema, is_current |-> TRUE]

ObjectSchema == Obj([type |-> Str("object")])

\* No type, $ref or allOf at the top level.
KeylessSchema == Obj([properties |-> EmptyObj])

\* The entries handed to register_schema.  Names and versions are free
\* strings: "ns:user" at "1.0" and "ns" at "user:1.0" are different pairs.
RegistryEntries ==
    { SchemaMetadata("user", "1.0", ObjectSchema, <<"t">>, <<>>),
      SchemaMetadata("user", "2.0", ObjectSchema, <<"t">>, <<>>),
      SchemaMetadata("order", "1.0", ObjectSchema, <<"t">>, <<"user", "ns">>),
      SchemaMetadata("ns:user", "1.0", ObjectSchema, <<>>, <<>>),
      SchemaMetadata("ns", "user:1.0", ObjectSchema, <<>>, <<>>),
      SchemaMetadata("user", "1.0", KeylessSchema, <<>>, <<"missing">>),
      SchemaMetadata("user", "1.0", ObjectSchema, <<>>, <<"missing">>),
      SchemaMetadata("user", "3.0", Str("object"), <<>>, <<>>) }

RegistryNames == {m.name : m \in RegistryEntries}

RegistryPairs == {<<m.name, m.version>> : m \in RegistryEntries}

RegistryTags == {"t"}

\* format!("{}:{}", name, version)
schema_key(name, version) == name \o ":" \o version

\* validate_schema_recursive only logs the keys it does not know and walks the
\* nested schemas; no path through it returns an error.
validate_schema_recursive(schema) == Ok(Unit)

SchemaRegistry_validate_schema(schema) ==
    IF is_object(schema)
    THEN IF DOMAIN schema.o \cap {"type", "$ref", "allOf"} = {}
         THEN Err("Schema must have 'type', '$ref', or 'allOf' property")
         ELSE validate_schema_recursive(schema)
    ELSE Err("Schema must be a JSON object")

RECURSIVE validate_dependencies(_)
validate_dependencies(dependencies) ==
    IF dependencies = <<>> THEN Ok(Unit)
    ELSE IF ~\E key \in DOMAIN registry_schemas :
                starts_with(key, Head(dependencies) \o ":")
         THEN Err("Dependency '{}' not found")
         ELSE validate_dependencies(Tail(dependencies))

get_schema(name, version) ==
    IF schema_key(name, version) \in DOMAIN registry_schemas
    THEN Ok(registry_schemas[schema_key(name, version)])
    ELSE Err("Schema '{}' version '{}' not found")

get_latest_schema(name) ==
    IF name \in DOMAIN versions /\ versions[name] # <<>>
    THEN get_schema(name, versions[name][Len(versions[name])].version)
    ELSE Err("Schema '{}' not found")

get_schema_versions(name) ==
    IF name \in DOMAIN versions THEN Ok(versions[name])
    ELSE Err("Schema '{}' not found")

\* filter_map(|name| self.get_latest_schema(name).ok()) over the names of the tag
RECURSIVE latest_of(_)
latest_of(schema_names) ==
    IF schema_names = <<>> THEN <<>>
    ELSE LET latest == get_latest_schema(Head(schema_names)) IN
         (IF latest.ok THEN <<latest.value>> ELSE <<>>)
         \o latest_of(Tail(schema_names))

get_schemas_by_tag(tag) ==
    IF tag \in DOMAIN tags THEN latest_of(tags[tag]) ELSE <<>>

\* The names come out of a HashSet: a set, in no order.
list_schemas == {Head(split(key, ":")) : key \in DOMAIN registry_schemas}

\* for tag in &metadata.tags { self.tags.entry(tag).or_insert_with(Vec::new).push(name) }
RECURSIVE push_tags(_, _, _)
push_tags(tag_map, tag_list, name) ==
    IF tag_list = <<>> THEN tag_map
    ELSE LET tag == Head(tag_list)
             names == IF tag \in DOMAIN tag_map THEN tag_map[tag] ELSE <<>>
         IN  push_tags(map_insert(tag_map, tag, Append(names, name)),
                       Tail(tag_list), name)

\* for tag in &metadata.tags { retain(|n| n != name); drop the tag when empty }
RECURSIVE retain_tags(_, _, _)
retain_tags(tag_map, tag_list, name) ==
    IF tag_list = <<>> THEN tag_map
    ELSE LET tag == Head(tag_list) IN
         IF tag \in DOMAIN tag_map
         THEN LET kept == SelectSeq(tag_map[tag], LAMBDA n : n # name) IN
              retain_tags(IF kept = <<>> THEN map_remove(tag_map, tag)
                          ELSE map_insert(tag_map, tag, kept),
                          Tail(tag_list), name)
         ELSE retain_tags(tag_map, Tail(tag_list), name)

\* A call on the registry: its arguments (metadata is None except for
\* register_schema) and what it returned.
RegistryCall(op, name, version, metadata, ret) ==
    [op |-> op, name |-> name, version |-> version, metadata |-> metadata,
     ret |-> ret]

RegistryInit ==
    /\ registry_schemas = EmptyMap
    /\ versions = EmptyMap
    /\ tags = EmptyMap
    /\ registry_result = RegistryCall("new", "", "", None, Ok(Unit))
    /\ registration_log = [name \in RegistryNames |-> <<>>]

\* register_schema without its check for duplicates.
register_schema_checks_no_duplicate_check(metadata) ==
    LET shape == SchemaRegistry_validate_schema(metadata.schema) IN
    IF ~shape.ok THEN shape ELSE validate_dependencies(metadata.dependencies)

\* The Result of register_schema(metadata) on the registry as it is: the first
\* of the three checks that fails, in the order of the code.
register_schema_checks(metadata) ==
    LET shape == SchemaRegistry_validate_schema(metadata.schema) IN
    IF ~shape.ok THEN shape
    ELSE IF schema_key(metadata.name, metadata.version) \in DOMAIN registry_schemas
         THEN Err("Schema '{}' version '{}' already exists")
         ELSE validate_dependencies(metadata.dependencies)

SchemaRegistry_register_schema(metadata) ==
    LET ret == register_schema_checks(metadata)
        name == metadata.name
        history == IF name \in DOMAIN versions THEN versions[name] ELSE <<>>
    IN
    /\ Len(history) < MaxVersions
    /\ registry_result' = RegistryCall("register_schema", name, metadata.version, metadata, ret)
    /\ IF ret.ok
       THEN /\ registry_schemas' =
                    map_insert(registry_schemas,
                               schema_key(name, metadata.version), metadata)
            /\ versions' =
                    map_insert(versions, name,
                               Append(history,
                                      SchemaVersion(metadata.version, metadata.schema)))
            /\ tags' = push_tags(tags, metadata.tags, name)
            /\ registration_log' =
                    [registration_log EXCEPT ![name] = Append(@, metadata.version)]
       ELSE UNCHANGED <<registry_schemas, versions, tags, registration_log>>
    /\ UNCHANGED <<integrity_vars, validator_vars, types_vars, http_vars, reporter_vars>>

SchemaRegistry_remove_schema(name, version) ==
    LET key == schema_key(name, version) IN
    /\ IF key \in DOMAIN registry_schemas
       THEN LET metadata == registry_schemas[key]
                kept == IF name \in DOMAIN versions
                        THEN SelectSeq(versions[name], LAMBDA v : v.version # version)
                        ELSE <<>>
            IN
            /\ registry_schemas' = map_remove(registry_schemas, key)
            /\ versions' =
                    IF name \in DOMAIN versions
                    THEN IF kept = <<>> THEN map_remove(versions, name)
                         ELSE map_insert(versions, name, kept)
                    ELSE versions
            /\ tags' = retain_tags(tags, metadata.tags, name)
            /\ registry_result' = RegistryCall("remove_schema", name, version, None, Ok(metadata))
            /\ registration_log' =
                    [registration_log EXCEPT
                        ![name] = SelectSeq(@, LAMBDA v : v # version)]
       ELSE /\ registry_result' =
                    RegistryCall("remove_schema", name, version, None,
                                 Err("Schema '{}' version '{}' not found"))
            /\ UNCHANGED <<registry_schemas, versions, tags, registration_log>>
    /\ UNCHANGED <<integrity_vars, validator_vars, types_vars, http_vars, reporter_vars>>

SchemaRegistry_update_schema(name, version, new_schema) ==
    LET key == schema_key(name, version)
        checked == SchemaRegistry_validate_schema(new_schema)
        ret == IF ~checked.ok THEN checked
               ELSE IF key \notin DOMAIN registry_schemas
               THEN Err("Schema '" \o name \o "' version '" \o version \o "' not found")
               ELSE Ok(Unit)
    IN
    /\ registry_result' = RegistryCall("update_schema", name, version, new_schema, ret)
    /\ registry_schemas' =
            IF ret.ok
            THEN [registry_schemas EXCEPT ![key] = [@ EXCEPT !.schema = new_schema]]
            ELSE registry_schemas
    /\ UNCHANGED <<versions, tags, registration_log>>
    /\ UNCHANGED <<integrity_vars, validator_vars, types_vars, http_vars, reporter_vars>>

SchemaRegistry_deprecate_schema(name, version) ==
    LET key == schema_key(name, version)
        ret == IF key \in DOMAIN registry_schemas
               THEN Ok(Unit)
               ELSE Err("Schema '" \o name \o "' version '" \o version \o "' not found")
    IN
    /\ registry_result' = RegistryCall("deprecate_schema", name, version, None, ret)
    /\ registry_schemas' =
            IF ret.ok
            THEN [registry_schemas EXCEPT ![key] = [@ EXCEPT !.is_deprecated = TRUE]]
            ELSE registry_schemas
    /\ UNCHANGED <<versions, tags, registration_log>>
    /\ UNCHANGED <<integrity_vars, validator_vars, types_vars, http_vars, reporter_vars>>

RECURSIVE total_len(_, _)
total_len(map, names) ==
    IF names = {} THEN 0
    ELSE LET name == CHOOSE n \in names : TRUE
         IN  Len(map[name]) + total_len(map, names \ {name})

get_statistics ==
    [total_schemas |-> Cardinality(DOMAIN registry_schemas),
     total_versions |-> total_len(versions, DOMAIN versions),
     deprecated_count |->
        Cardinality({key \in DOMAIN registry_schemas :
                        registry_schemas[key].is_deprecated}),
     tag_count |-> Cardinality(DOMAIN tags),
     schema_names |-> list_schemas]

RegistryNext ==
    \/ \E metadata \in RegistryEntries : SchemaRegistry_register_schema(metadata)
    \/ \E pair \in RegistryPairs : SchemaRegistry_remove_schema(pair[1], pair[2])

(***************************************************************************)
(* SchemaValidator (validation/schema.rs)                                  *)
(***************************************************************************)

\* validate_value gives up (the call stack is exhausted) when its calls nest
\* deeper than this; no finite recursion of the model comes near it.
RecursionLimit == 12

SchemaError(path, error_type) == [path |-> path, error_type |-> error_type]

Digits == {"0", "1", "2", "3", "4", "5", "6", "7", "8", "9"}

\* regex::Regex::new(pattern) and Regex::is_match, for the patterns of the
\* model: "^[0-9]+$" compiles, "[" does not.
regex_compiles(pattern) == pattern = "^[0-9]+$"

regex_is_match(pattern, text) ==
    /\ Len(text) >= 1
    /\ \A i \in 1..Len(text) : SubSeq(text, i, i) \in Digits

\* The key is present and as_str() / as_u64() / as_f64() / as_array() /
\* as_object() gives a value.
has_str(obj, key) == key \in DOMAIN obj /\ is_string(obj[key])
has_u64(obj, key) == key \in DOMAIN obj /\ is_u64(obj[key])
has_f64(obj, key) == key \in DOMAIN obj /\ is_number(obj[key])
has_array(obj, key) == key \in DOMAIN obj /\ is_array(obj[key])
has_object(obj, key) == key \in DOMAIN obj /\ is_object(obj[key])

\* One error when the condition holds.
error_if(condition, path, error_type) ==
    IF condition THEN <<SchemaError(path, error_type)>> ELSE <<>>

SchemaValidator_validate_type(data, expected_type, path) ==
    error_if(data.k # expected_type, path, "InvalidType")

\* validate_constraints, "String constraints"
string_constraints(data, schema_obj, path) ==
    error_if(has_u64(schema_obj, "minLength")
                /\ Len(data.s) < schema_obj["minLength"].n,
             path, "ConstraintViolation")
    \o error_if(has_u64(schema_obj, "maxLength")
                /\ Len(data.s) > schema_obj["maxLength"].n,
                path, "ConstraintViolation")
    \o error_if(has_str(schema_obj, "pattern")
                /\ regex_compiles(schema_obj["pattern"].s)
                /\ ~regex_is_match(schema_obj["pattern"].s, data.s),
                path, "PatternMismatch")

\* The number constraints with the `maximum` check left out.
number_constraints_minimum_only(data, schema_obj, path) ==
    error_if(has_f64(schema_obj, "minimum") /\ data.n < schema_obj["minimum"].n,
             path, "ConstraintViolation")

\* validate_constraints, "Number constraints"
number_constraints(data, schema_obj, path) ==
    error_if(has_f64(schema_obj, "minimum") /\ data.n < schema_obj["minimum"].n,
             path, "ConstraintViolation")
    \o error_if(has_f64(schema_obj, "maximum") /\ data.n > schema_obj["maximum"].n,
                path, "ConstraintViolation")

\* validate_constraints, "Array constraints"
array_constraints(data, schema_obj, path) ==
    error_if(has_u64(schema_obj, "minItems")
                /\ Len(data.a) < schema_obj["minItems"].n,
             path, "ArrayConstraintViolation")
    \o error_if(has_u64(schema_obj, "maxItems")
                /\ Len(data.a) > schema_obj["maxItems"].n,
                path, "ArrayConstraintViolation")

validate_constraints(data, schema_obj, path) ==
    (IF is_string(data) THEN string_constraints(data, schema_obj, path) ELSE <<>>)
    \o (IF is_number(data) THEN number_constraints(data, schema_obj, path) ELSE <<>>)
    \o (IF is_array(data) THEN array_constraints(data, schema_obj, path) ELSE <<>>)

\* The error for a missing field, put at the path of a property.
required_error_at_property(data, required_field, path) ==
    error_if(is_string(required_field) /\ required_field.s \notin DOMAIN data.o,
             IF path = "" THEN required_field.s ELSE path \o "." \o required_field.s,
             "RequiredFieldMissing")

\* if let Some(field_name) = required_field.as_str() {
\*     if !data_obj.contains_key(field_name) { errors.push(..) } }
required_error(data, required_field, path) ==
    error_if(is_string(required_field) /\ required_field.s \notin DOMAIN data.o,
             path \o "." \o required_field.s, "RequiredFieldMissing")

\* The `required` block: one error for each listed name the object lacks.
RECURSIVE required_errors(_, _, _)
required_errors(data, required_array, path) ==
    IF required_array = <<>> THEN <<>>
    ELSE required_error(data, Head(required_array), path)
         \o required_errors(data, Tail(required_array), path)

\* The dispatch with $ref looked at after the combinators.
dispatch_ref_last(schema_obj) ==
    IF has_array(schema_obj, "allOf") THEN "allOf"
    ELSE IF has_array(schema_obj, "anyOf") THEN "anyOf"
    ELSE IF has_array(schema_obj, "oneOf") THEN "oneOf"
    ELSE IF "not" \in DOMAIN schema_obj THEN "not"
    ELSE IF has_str(schema_obj, "$ref") /\ schema_obj["$ref"].s \in DOMAIN validator_schemas
    THEN "$ref"
    ELSE "plain"

\* How a schema node is dispatched: the first of $ref (naming a registered
\* schema), allOf, anyOf, oneOf (arrays), not that it has, else a plain node.
dispatch(schema_obj) ==
    IF has_str(schema_obj, "$ref") /\ schema_obj["$ref"].s \in DOMAIN validator_schemas
    THEN "$ref"
    ELSE IF has_array(schema_obj, "allOf") THEN "allOf"
    ELSE IF has_array(schema_obj, "anyOf") THEN "anyOf"
    ELSE IF has_array(schema_obj, "oneOf") THEN "oneOf"
    ELSE IF "not" \in DOMAIN schema_obj THEN "not"
    ELSE "plain"

\* The oneOf verdict with the collected errors handed out last first.
one_of_errors_reversed(valid_count, all_errors) ==
    IF valid_count # 1
    THEN [i \in 1..Len(all_errors) |-> all_errors[Len(all_errors) + 1 - i]]
    ELSE <<>>

\* The oneOf verdict: the branch errors go out unless exactly one branch is clean.
one_of_errors(valid_count, all_errors) ==
    IF valid_count # 1 THEN all_errors ELSE <<>>

\* The not verdict, but handing on the errors of the inner validation.
not_errors_surfacing(temp_errors, path) ==
    IF temp_errors = <<>>
    THEN <<SchemaError(path, "CustomValidationFailed")>>
    ELSE temp_errors

\* The not verdict: one error when the inner validation found none.
not_errors(temp_errors, path) ==
    error_if(temp_errors = <<>>, path, "CustomValidationFailed")

\* The path of a property, always joined with a dot.
prop_path_dotted(path, prop_name) == path \o "." \o prop_name

\* let prop_path = if path.is_empty() { prop_name.clone() } else { format!(..) }
prop_path(path, prop_name) ==
    IF path = "" THEN prop_name ELSE path \o "." \o prop_name

RECURSIVE validate_value(_, _, _)
RECURSIVE all_of(_, _, _)
RECURSIVE any_of(_, _, _, _)
RECURSIVE one_of(_, _, _, _, _)
RECURSIVE properties_errors(_, _, _, _)
RECURSIVE additional_errors(_, _, _, _, _)
RECURSIVE items_errors(_, _, _, _)

\* for sub_schema in all_of_array { validate_value(...) }
all_of(data, sub_schemas, path) ==
    IF sub_schemas = <<>> THEN <<>>
    ELSE validate_value(data, Head(sub_schemas), path)
         \o all_of(data, Tail(sub_schemas), path)

\* The anyOf loop: it stops at the first clean branch.
any_of(data, sub_schemas, path, temp_errors) ==
    IF sub_schemas = <<>> THEN temp_errors
    ELSE LET sub_errors == validate_value(data, Head(sub_schemas), path) IN
         IF sub_errors = <<>> THEN <<>>
         ELSE any_of(data, Tail(sub_schemas), path, temp_errors \o sub_errors)

\* The oneOf loop: it counts the clean branches and collects the errors of the others.
one_of(data, sub_schemas, path, valid_count, all_errors) ==
    IF sub_schemas = <<>> THEN one_of_errors(valid_count, all_errors)
    ELSE LET sub_errors == validate_value(data, Head(sub_schemas), path) IN
         IF sub_errors = <<>>
         THEN one_of(data, Tail(sub_schemas), path, valid_count + 1, all_errors)
         ELSE one_of(data, Tail(sub_schemas), path, valid_count,
                     all_errors \o sub_errors)

\* for (prop_name, prop_schema) in properties_obj { ... }
properties_errors(data, properties_obj, prop_names, path) ==
    IF prop_names = <<>> THEN <<>>
    ELSE LET prop_name == Head(prop_names) IN
         (IF prop_name \in DOMAIN data.o
          THEN validate_value(data.o[prop_name], properties_obj[prop_name],
                              prop_path(path, prop_name))
          ELSE <<>>)
         \o properties_errors(data, properties_obj, Tail(prop_names), path)

\* for (key, value) in data_obj { if !properties_obj.contains_key(key) { ... } }
additional_errors(data, properties_obj, additional_properties, data_keys, path) ==
    IF data_keys = <<>> THEN <<>>
    ELSE LET key == Head(data_keys) IN
         (IF key \in DOMAIN properties_obj THEN <<>>
          ELSE IF is_boolean(additional_properties) /\ ~additional_properties.b
               THEN <<SchemaError(path \o "." \o key, "ObjectConstraintViolation")>>
               ELSE IF is_object(additional_properties)
                    THEN validate_value(data.o[key], additional_properties,
                                        path \o "." \o key)
                    ELSE <<>>)
         \o additional_errors(data, properties_obj, additional_properties,
                              Tail(data_keys), path)

\* for (index, item) in data_array.iter().enumerate() { ... }
items_errors(data_array, items, index, path) ==
    IF index >= Len(data_array) THEN <<>>
    ELSE validate_value(data_array[index + 1], items,
                        path \o "[" \o ToString(index) \o "]")
         \o items_errors(data_array, items, index + 1, path)

\* The errors validate_value pushes for data against schema at path.
validate_value(data, schema, path) ==
    IF ~is_object(schema) THEN <<>>
    ELSE
    LET schema_obj == schema.o
        kind == dispatch(schema_obj)
    IN
    CASE kind = "$ref" ->
            validate_value(data, validator_schemas[schema_obj["$ref"].s], path)
      [] kind = "allOf" -> all_of(data, schema_obj["allOf"].a, path)
      [] kind = "anyOf" -> any_of(data, schema_obj["anyOf"].a, path, <<>>)
      [] kind = "oneOf" -> one_of(data, schema_obj["oneOf"].a, path, 0, <<>>)
      [] kind = "not" ->
            not_errors(validate_value(data, schema_obj["not"], path), path)
      [] kind = "plain" ->
            (IF has_str(schema_obj, "type")
             THEN SchemaValidator_validate_type(data, schema_obj["type"].s, path)
             ELSE <<>>)
            \o (IF has_array(schema_obj, "required") /\ is_object(data)
                THEN required_errors(data, schema_obj["required"].a, path)
                ELSE <<>>)
            \o (IF has_object(schema_obj, "properties") /\ is_object(data)
                THEN properties_errors(data, schema_obj["properties"].o,
                                       keys(schema_obj["properties"]), path)
                ELSE <<>>)
            \o (IF /\ "additionalProperties" \in DOMAIN schema_obj
                   /\ is_object(data)
                   /\ has_object(schema_obj, "properties")
                THEN additional_errors(data, schema_obj["properties"].o,
                                       schema_obj["additionalProperties"],
                                       keys(data), path)
                ELSE <<>>)
            \o (IF "items" \in DOMAIN schema_obj /\ is_array(data)
                THEN items_errors(data.a, schema_obj["items"], 0, path)
                ELSE <<>>)
            \o validate_constraints(data, schema_obj, path)

\* Whether the calls of validate_value(data, schema, _) nest deeper than
\* depth: the recursion has no guard, so a $ref cycle of the schema table
\* nests without end and the call never returns.
RECURSIVE stack_overflows(_, _, _)
stack_overflows(data, schema, depth) ==
    IF depth = 0 THEN TRUE
    ELSE IF ~is_object(schema) THEN FALSE
    ELSE
    LET schema_obj == schema.o
        kind == dispatch(schema_obj)
        deeper(d, s) == stack_overflows(d, s, depth - 1)
    IN
    CASE kind = "$ref" -> deeper(data, validator_schemas[schema_obj["$ref"].s])
      [] kind = "allOf" ->
            \E i \in 1..Len(schema_obj["allOf"].a) : deeper(data, schema_obj["allOf"].a[i])
      [] kind = "anyOf" ->
            LET sub_schemas == schema_obj["anyOf"].a IN
            \E i \in 1..Len(sub_schemas) :
                /\ \A j \in 1..(i - 1) :
                        /\ ~deeper(data, sub_schemas[j])
                        /\ validate_value(data, sub_schemas[j], "") # <<>>
                /\ deeper(data, sub_schemas[i])
      [] kind = "oneOf" ->
            \E i \in 1..Len(schema_obj["oneOf"].a) : deeper(data, schema_obj["oneOf"].a[i])
      [] kind = "not" -> deeper(data, schema_obj["not"])
      [] kind = "plain" ->
            \/ /\ has_object(schema_obj, "properties") /\ is_object(data)
               /\ \E prop_name \in DOMAIN schema_obj["properties"].o \cap DOMAIN data.o :
                    deeper(data.o[prop_name], schema_obj["properties"].o[prop_name])
            \/ /\ has_object(schema_obj, "additionalProperties")
               /\ has_object(schema_obj, "properties") /\ is_object(data)
               /\ \E key \in DOMAIN data.o \ DOMAIN schema_obj["properties"].o :
                    deeper(data.o[key], schema_obj["additionalProperties"])
            \/ /\ "items" \in DOMAIN schema_obj /\ is_array(data)
               /\ \E i \in 1..Len(data.a) : deeper(data.a[i], schema_obj["items"])

\* The structure check, accepting every JSON object.
validate_schema_structure_any_object(schema) ==
    IF is_object(schema) THEN Ok(Unit) ELSE Err("Schema must be a JSON object")

validate_schema_structure(schema) ==
    IF is_object(schema)
    THEN IF /\ "type" \notin DOMAIN schema.o
            /\ "$ref" \notin DOMAIN schema.o
            /\ "allOf" \notin DOMAIN schema.o
         THEN Err("Schema must have 'type', '$ref', or 'allOf' property")
         ELSE Ok(Unit)
    ELSE Err("Schema must be a JSON object")

\* A result that is valid whatever errors it carries.
SchemaValidationResult_always_valid(errors) ==
    [is_valid |-> TRUE, errors |-> errors, warnings |-> <<>>]

\* SchemaValidationResult; validation_time_ms, a clock reading, is left out.
SchemaValidationResult(errors) ==
    [is_valid |-> errors = <<>>, errors |-> errors, warnings |-> <<>>]

\* The outcome if the recursion were cut where it does not end.
validation_outcome_cycle_guarded(data, schema) ==
    IF stack_overflows(data, schema, RecursionLimit)
    THEN [returned |-> TRUE, ret |-> Ok(SchemaValidationResult(<<>>))]
    ELSE [returned |-> TRUE,
          ret |-> Ok(SchemaValidationResult(validate_value(data, schema, "")))]

\* The outcome of a validation that has found its schema: the result, or no
\* return at all when the recursion does not end.
validation_outcome(data, schema) ==
    IF stack_overflows(data, schema, RecursionLimit)
    THEN [returned |-> FALSE]
    ELSE [returned |-> TRUE,
          ret |-> Ok(SchemaValidationResult(validate_value(data, schema, "")))]

\* The documents and schemas the validator is called with.
StringSchema == Obj([type |-> Str("string"), minLength |-> Num(1)])
NumberSchema == Obj([type |-> Str("number"), minimum |-> Num(0)])
ShortSchema == Obj([maxLength |-> Num(1), maximum |-> Num(4)])
DigitsSchema == Obj([type |-> Str("string"), pattern |-> Str("^[0-9]+$")])
RequiredSchema == Obj([required |-> Arr(<<Str("id")>>)])
UserSchema ==
    Obj([type |-> Str("object"),
         properties |-> Obj([id |-> StringSchema, age |-> NumberSchema]),
         required |-> Arr(<<Str("id"), Str("age")>>)])
ClosedSchema ==
    Obj([type |-> Str("object"),
         properties |-> Obj([id |-> StringSchema]),
         additionalProperties |-> Bool(FALSE)])
ListSchema ==
    Obj([type |-> Str("array"), items |-> StringSchema, minItems |-> Num(1)])

Ref(name) == Obj("$ref" :> Str(name))
OneOf(s1, s2) == Obj([oneOf |-> Arr(<<s1, s2>>)])
AnyOf(s1, s2) == Obj([anyOf |-> Arr(<<s1, s2>>)])
AllOf(s1, s2) == Obj([allOf |-> Arr(<<s1, s2>>)])
Not(s) == Obj([not |-> s])

\* A property whose schema is a `not`.
NestedNotSchema == Obj([properties |-> Obj([id |-> Not(StringSchema)])])

\* Keys written next to a combinator or a $ref.
SiblingSchemas ==
    { Obj([anyOf |-> Arr(<<Obj([type |-> Str("object")])>>),
           required |-> Arr(<<Str("id")>>)]),
      Obj([allOf |-> Arr(<<NumberSchema>>), maximum |-> Num(0)]),
      Obj([not |-> StringSchema, minimum |-> Num(0)]),
      Obj(("$ref" :> Str("base")) @@ [type |-> Str("number")]),
      Obj(("$ref" :> Str("other")) @@ [type |-> Str("string")]) }

Branches == {StringSchema, NumberSchema, ShortSchema}

LeafSchemas ==
    Branches \cup {DigitsSchema, RequiredSchema, UserSchema, ClosedSchema,
                   ListSchema, NestedNotSchema, Bool(TRUE)}

OneOfSchemas == {OneOf(s1, s2) : s1, s2 \in Branches}

InlineSchemas ==
    LeafSchemas \cup OneOfSchemas \cup SiblingSchemas
    \cup {AnyOf(s1, s2) : s1 \in Branches, s2 \in Branches \ {StringSchema}}
    \cup {AllOf(s1, s2) : s1 \in Branches \ {ShortSchema}, s2 \in Branches}
    \cup {Not(s) : s \in Branches \cup {UserSchema, OneOf(StringSchema, ShortSchema),
                                        OneOf(StringSchema, NumberSchema)}}
    \cup {Ref("base"), AllOf(StringSchema, Ref("base")), AnyOf(ShortSchema, Ref("base"))}

ValidatorNames == {"base"}

\* What register_schema is called with: three schemas it accepts, one of them
\* referring to its own name, and two it rejects.
RegistrableSchemas ==
    {UserSchema, StringSchema, Ref("base"), Not(StringSchema), Str("string")}

ValidatorDocs ==
    { Str(""), Str("x"), Str("12"), Num(-1), Num(5), EmptyObj,
      Obj([id |-> Str("x")]),
      Obj([id |-> Str("x"), age |-> Num(5)]),
      Obj([id |-> Str(""), age |-> Num(-1)]),
      Obj([id |-> Str("x"), name |-> Str("n")]),
      Arr(<<Str("x"), Str("")>>) }

ValidatorCall(op, schema_name, data, schema, outcome) ==
    [op |-> op, schema_name |-> schema_name, data |-> data, schema |-> schema,
     returned |-> outcome.returned,
     ret |-> IF outcome.returned THEN outcome.ret ELSE None]

Returned(ret) == [returned |-> TRUE, ret |-> ret]

ValidatorInit ==
    /\ validator_schemas = EmptyMap
    /\ validation_result = ValidatorCall("new", "", None, None, Returned(None))

\* A call that does not return has exhausted the stack: the process is gone.
Alive == validation_result.returned

SchemaValidator_register_schema(name, schema) ==
    /\ Alive
    /\ LET ret == validate_schema_structure(schema) IN
       /\ validator_schemas' = IF ret.ok THEN map_insert(validator_schemas, name, schema)
                               ELSE validator_schemas
       /\ validation_result' =
            ValidatorCall("register_schema", name, None, schema, Returned(ret))
    /\ UNCHANGED <<integrity_vars, registry_vars, types_vars, http_vars, reporter_vars>>

validate(data, schema_name) ==
    /\ Alive
    /\ validation_result' =
         IF schema_name \in DOMAIN validator_schemas
         THEN ValidatorCall("validate", schema_name, data,
                            validator_schemas[schema_name],
                            validation_outcome(data, validator_schemas[schema_name]))
         ELSE ValidatorCall("validate", schema_name, data, None,
                            Returned(Err("Schema '" \o schema_name \o "' not found")))
    /\ UNCHANGED <<validator_schemas, integrity_vars, registry_vars, types_vars, http_vars, reporter_vars>>

validate_against_schema(data, schema) ==
    /\ Alive
    /\ validation_result' =
         ValidatorCall("validate_against_schema", "", data, schema,
                       validation_outcome(data, schema))
    /\ UNCHANGED <<validator_schemas, integrity_vars, registry_vars, types_vars, http_vars, reporter_vars>>

SchemaValidator_remove_schema(name) ==
    /\ Alive
    /\ validator_schemas' = map_remove(validator_schemas, name)
    /\ validation_result' =
         ValidatorCall("remove_schema", name, None, None,
                       Returned(IF name \in DOMAIN validator_schemas
                                THEN validator_schemas[name] ELSE None))
    /\ UNCHANGED <<integrity_vars, registry_vars, types_vars, http_vars, reporter_vars>>

ValidatorNext ==
    \/ \E name \in ValidatorNames, schema \in RegistrableSchemas :
            SchemaValidator_register_schema(name, schema)
    \/ \E data \in ValidatorDocs, schema_name \in ValidatorNames :
            validate(data, schema_name)
    \/ \E data \in ValidatorDocs, schema \in InlineSchemas :
            validate_against_schema(data, schema)
    \/ \E name \in ValidatorNames : SchemaValidator_remove_schema(name)

(***************************************************************************)
(* TypeValidator (validation/types.rs)                                     *)
(***************************************************************************)

MaxTypeConstraints == 2

\* An f64 that holds a whole number, as serde_json::Number::from_f64 stores it:
\* a number, but not equal to the integer of the same value.
Float(n) == [k |-> "number", n |-> n, f64 |-> TRUE]

TypeError(path, error_type) == [path |-> path, error_type |-> error_type]

TypeConstraint(name, constraint_type, value, severity) ==
    [name |-> name, constraint_type |-> constraint_type, value |-> value,
     severity |-> severity]

TypeDefinition(name, base_type, constraint_list) ==
    [name |-> name, base_type |-> base_type, constraints |-> constraint_list]

get_value_type(value) == value.k

\* A compatibility test that lets every pair through.
is_type_compatible_any(actual, expected) == TRUE

is_type_compatible(actual, expected) ==
    \/ actual = "number" /\ expected = "integer"
    \/ actual = "integer" /\ expected = "number"
    \/ actual = expected

validate_type_definition(type_def) ==
    IF type_def.name = "" THEN Err("Type name cannot be empty")
    ELSE IF type_def.base_type = "" THEN Err("Base type cannot be empty")
    ELSE IF type_def.base_type \notin
                {"string", "number", "integer", "boolean", "array", "object", "null"}
    THEN Err("Invalid base type: " \o type_def.base_type)
    ELSE Ok(Unit)

\* The error of a failing constraint, None when it holds or does not apply.
validate_constraint(value, constraint) ==
    LET constraint_value == constraint.value
        kind == constraint.constraint_type
    IN
    CASE kind = "Required" ->
            IF is_null(value) THEN TypeError("root", "RequiredFieldMissing") ELSE None
      [] kind = "MinLength" ->
            IF /\ is_string(value) /\ IsSome(constraint_value) /\ is_u64(constraint_value)
               /\ Len(value.s) < constraint_value.n
            THEN TypeError("root", "ConstraintViolation") ELSE None
      [] kind = "MaxLength" ->
            IF /\ is_string(value) /\ IsSome(constraint_value) /\ is_u64(constraint_value)
               /\ Len(value.s) > constraint_value.n
            THEN TypeError("root", "ConstraintViolation") ELSE None
      [] kind = "MinValue" ->
            IF /\ is_number(value) /\ IsSome(constraint_value) /\ is_number(constraint_value)
               /\ value.n < constraint_value.n
            THEN TypeError("root", "RangeViolation") ELSE None
      [] kind = "MaxValue" ->
            IF /\ is_number(value) /\ IsSome(constraint_value) /\ is_number(constraint_value)
               /\ value.n > constraint_value.n
            THEN TypeError("root", "RangeViolation") ELSE None
      [] kind = "Pattern" ->
            IF /\ is_string(value) /\ IsSome(constraint_value) /\ is_string(constraint_value)
               /\ regex_compiles(constraint_value.s)
               /\ ~regex_is_match(constraint_value.s, value.s)
            THEN TypeError("root", "FormatError") ELSE None
      [] kind = "Enum" ->
            IF /\ IsSome(constraint_value) /\ is_array(constraint_value)
               /\ \A i \in 1..Len(constraint_value.a) : constraint_value.a[i] # value
            THEN TypeError("root", "InvalidValue") ELSE None
      [] kind = "Custom" -> None

\* match constraint.severity { Warning => warnings, Error | Critical => errors },
\* but with every failure sent to errors.
routed_to_errors_always(severity) == "errors"

\* match constraint.severity { Warning => warnings, Error | Critical => errors }
routed_to(severity) ==
    IF severity = "Warning" THEN "warnings" ELSE "errors"

\* The failures of a list of constraints that go to one of the two lists.
RECURSIVE constraint_failures(_, _, _)
constraint_failures(value, constraint_list, list) ==
    IF constraint_list = <<>> THEN <<>>
    ELSE LET constraint == Head(constraint_list)
             error == validate_constraint(value, constraint)
         IN  (IF IsSome(error) /\ routed_to(constraint.severity) = list
              THEN <<error>> ELSE <<>>)
             \o constraint_failures(value, Tail(constraint_list), list)

\* What validate_against_type_definition pushes onto one of the two lists.
validate_against_type_definition(value, type_def, path, list) ==
    (IF list = "errors" /\ ~is_type_compatible(get_value_type(value), type_def.base_type)
     THEN <<TypeError(path, "TypeMismatch")>> ELSE <<>>)
    \o constraint_failures(value, type_def.constraints, list)

\* The errors (or warnings) validate_type collects.
validate_type_list(value, type_name, list) ==
    (IF list = "errors" /\ ~is_type_compatible(get_value_type(value), type_name)
     THEN <<TypeError("root", "TypeMismatch")>> ELSE <<>>)
    \o (IF type_name \in DOMAIN type_registry
        THEN validate_against_type_definition(value, type_registry[type_name], "", list)
        ELSE <<>>)
    \o constraint_failures(value, type_constraints, list)

\* TypeValidationResult; validation_time_ms, a clock reading, is left out.
TypeValidationResult(value, type_name) ==
    LET errors == validate_type_list(value, type_name, "errors") IN
    [is_valid |-> errors = <<>>,
     actual_type |-> get_value_type(value),
     expected_type |-> type_name,
     errors |-> errors,
     warnings |-> validate_type_list(value, type_name, "warnings")]

\* str::to_lowercase, for ASCII letters.
UpperCase == "ABCDEFGHIJKLMNOPQRSTUVWXYZ"
LowerCase == "abcdefghijklmnopqrstuvwxyz"

lower_char(c) ==
    IF \E i \in 1..Len(UpperCase) : SubSeq(UpperCase, i, i) = c
    THEN LET i == CHOOSE i \in 1..Len(UpperCase) : SubSeq(UpperCase, i, i) = c
         IN  SubSeq(LowerCase, i, i)
    ELSE c

RECURSIVE to_lowercase(_)
to_lowercase(s) ==
    IF s = "" THEN ""
    ELSE lower_char(SubSeq(s, 1, 1)) \o to_lowercase(SubSeq(s, 2, Len(s)))

\* The digits after an optional sign, and whether the string is an integer
\* literal: what str::parse::<i64> accepts (values that fit i64).
unsigned_part(s) ==
    IF Len(s) > 0 /\ SubSeq(s, 1, 1) \in {"+", "-"} THEN SubSeq(s, 2, Len(s)) ELSE s

is_integer_literal(s) ==
    /\ Len(unsigned_part(s)) >= 1
    /\ \A i \in 1..Len(unsigned_part(s)) : SubSeq(unsigned_part(s), i, i) \in Digits

RECURSIVE digits_value(_)
digits_value(s) ==
    IF s = "" THEN 0
    ELSE digits_value(SubSeq(s, 1, Len(s) - 1)) * 10
         + (CHOOSE d \in 0..9 : ToString(d) = SubSeq(s, Len(s), Len(s)))

integer_value(s) ==
    IF SubSeq(s, 1, 1) = "-" THEN 0 - digits_value(unsigned_part(s))
    ELSE digits_value(unsigned_part(s))

\* str_val.parse::<i64>()
parse_i64(str_val) ==
    IF is_integer_literal(str_val) THEN Ok(integer_value(str_val))
    ELSE Err("invalid digit found in string")

\* str_val.parse::<f64>() followed by Number::from_f64(..).unwrap_or(0): an
\* integer literal gives its value as an f64; the spellings of infinity and
\* NaN parse, are no JSON number and give the integer 0; of the strings of
\* the model every other one fails to parse.
parse_f64_number(str_val) ==
    IF is_integer_literal(str_val) THEN Ok(Float(integer_value(str_val)))
    ELSE IF to_lowercase(unsigned_part(str_val)) \in {"inf", "infinity", "nan"}
    THEN Ok(Num(0))
    ELSE Err("Cannot convert to number")

\* Value::to_string(): the compact JSON text (the strings of the model need
\* no escapes).
RECURSIVE to_string(_)
RECURSIVE join_elements(_)
RECURSIVE join_members(_, _)
join_elements(a) ==
    IF a = <<>> THEN ""
    ELSE to_string(Head(a)) \o (IF Len(a) > 1 THEN "," ELSE "") \o join_elements(Tail(a))
join_members(o, ks) ==
    IF ks = <<>> THEN ""
    ELSE "\"" \o Head(ks) \o "\":" \o to_string(o[Head(ks)])
         \o (IF Len(ks) > 1 THEN "," ELSE "") \o join_members(o, Tail(ks))
to_string(value) ==
    CASE is_null(value) -> "null"
      [] is_boolean(value) -> IF value.b THEN "true" ELSE "false"
      [] is_number(value) ->
            ToString(value.n) \o (IF "f64" \in DOMAIN value THEN ".0" ELSE "")
      [] is_string(value) -> "\"" \o value.s \o "\""
      [] is_array(value) -> "[" \o join_elements(value.a) \o "]"
      [] is_object(value) -> "{" \o join_members(value.o, keys(value)) \o "}"

\* match str_val.to_lowercase().as_str() { ... }
boolean_of_string(str_val) ==
    IF to_lowercase(str_val) \in {"true", "1", "yes", "on"} THEN Ok(Bool(TRUE))
    ELSE IF to_lowercase(str_val) \in {"false", "0", "no", "off"} THEN Ok(Bool(FALSE))
    ELSE Err("Cannot convert to boolean")

\* TypeValidator::convert_type
convert(value, target_type) ==
    CASE target_type = "string" -> Ok(Str(to_string(value)))
      [] target_type = "number" ->
            IF is_number(value) THEN Ok(Float(value.n))
            ELSE IF is_string(value) THEN parse_f64_number(value.s)
            ELSE Err("Cannot convert to number")
      [] target_type = "integer" ->
            IF is_number(value) THEN Ok(Num(value.n))
            ELSE IF is_string(value)
                 THEN IF parse_i64(value.s).ok THEN Ok(Num(parse_i64(value.s).value))
                      ELSE Err("Cannot convert to integer")
            ELSE Err("Cannot convert to integer")
      [] target_type = "boolean" ->
            IF is_boolean(value) THEN Ok(Bool(value.b))
            ELSE IF is_string(value) THEN boolean_of_string(value.s)
            ELSE Err("Cannot convert to boolean")
      [] target_type = "array" ->
            IF is_array(value) THEN Ok(Arr(value.a)) ELSE Ok(Arr(<<value>>))
      [] target_type = "object" ->
            IF is_object(value) THEN Ok(Obj(value.o))
            ELSE Err("Cannot convert to object")
      [] target_type = "null" -> Ok(Null)
      [] OTHER -> Err("Unknown target type: " \o target_type)

\* What the TypeValidator is called with.
TypeConstraintPool ==
    { TypeConstraint("length_constraint", "MinLength", Num(3), "Error"),
      TypeConstraint("length_hint", "MinLength", Num(3), "Warning"),
      TypeConstraint("range", "MaxValue", Num(10), "Critical"),
      TypeConstraint("present", "Required", None, "Warning") }

TypeDefinitionPool ==
    { TypeDefinition("short", "string",
                     <<TypeConstraint("short_hint", "MaxLength", Num(2), "Warning"),
                       TypeConstraint("digits", "Pattern", Str("^[0-9]+$"), "Error")>>),
      TypeDefinition("short", "number",
                     <<TypeConstraint("choice", "Enum", Arr(<<Num(5), Str("hi")>>),
                                      "Critical")>>),
      TypeDefinition("", "string", <<>>),
      TypeDefinition("list", "list", <<>>) }

TypeValues == {Null, Str("hi"), Str("hello"), Str("42"), Num(42), Num(5)}

TypeNames == {"string", "integer", "short"}

ConvertValues ==
    { Str("true"), Str("TRUE"), Str("Yes"), Str("1"), Str("on"),
      Str("false"), Str("0"), Str("No"), Str("OFF"),
      Str("abc"), Str("42"), Str("-7"), Str("NaN"), Str(""), Str("truthy"),
      Bool(TRUE), Bool(FALSE), Num(42), Num(0), Num(1), Float(2), Null,
      Arr(<<Num(1)>>), Obj([a |-> Str("b")]) }

TargetTypes ==
    {"string", "number", "integer", "boolean", "array", "object", "null", "float"}

TypeCall(op, value, type_name, type_def, ret) ==
    [op |-> op, value |-> value, type_name |-> type_name, type_def |-> type_def,
     ret |-> ret]

TypesInit ==
    /\ type_registry = EmptyMap
    /\ type_constraints = <<>>
    /\ type_result = TypeCall("new", None, "", None, None)

register_type(type_def) ==
    /\ LET ret == validate_type_definition(type_def) IN
       /\ type_registry' = IF ret.ok THEN map_insert(type_registry, type_def.name, type_def)
                           ELSE type_registry
       /\ type_result' = TypeCall("register_type", None, type_def.name, type_def, ret)
    /\ UNCHANGED <<type_constraints, integrity_vars, registry_vars, validator_vars,
                   http_vars, reporter_vars>>

TypeValidator_add_constraint(constraint) ==
    /\ Len(type_constraints) < MaxTypeConstraints
    /\ type_constraints' = Append(type_constraints, constraint)
    /\ type_result' = TypeCall("add_constraint", None, constraint.name, None, None)
    /\ UNCHANGED <<type_registry, integrity_vars, registry_vars, validator_vars,
                   http_vars, reporter_vars>>

validate_type(value, type_name) ==
    /\ type_result' = TypeCall("validate_type", value, type_name, None,
                               Ok(TypeValidationResult(value, type_name)))
    /\ UNCHANGED <<type_registry, type_constraints, integrity_vars, registry_vars,
                   validator_vars, http_vars, reporter_vars>>

convert_type(value, target_type) ==
    /\ type_result' = TypeCall("convert_type", value, target_type, None,
                               convert(value, target_type))
    /\ UNCHANGED <<type_registry, type_constraints, integrity_vars, registry_vars,
                   validator_vars, http_vars, reporter_vars>>

remove_type(name) ==
    /\ type_registry' = map_remove(type_registry, name)
    /\ type_result' = TypeCall("remove_type", None, name, None,
                               IF name \in DOMAIN type_registry
                               THEN type_registry[name] ELSE None)
    /\ UNCHANGED <<type_constraints, integrity_vars, registry_vars, validator_vars,
                   http_vars, reporter_vars>>

TypesNext ==
    \/ \E type_def \in TypeDefinitionPool : register_type(type_def)
    \/ \E constraint \in TypeConstraintPool : TypeValidator_add_constraint(constraint)
    \/ \E value \in TypeValues, type_name \in TypeNames : validate_type(value, type_name)
    \/ \E name \in {"short"} : remove_type(name)

ConvertNext ==
    \E value \in ConvertValues, target_type \in TargetTypes :
        convert_type(value, target_type)

(***************************************************************************)
(* RateLimiter (http/rate_limiter.rs)                                      *)
(***************************************************************************)

\* Duration::from_secs(60)
WindowSeconds == 60

\* The clock moves in steps of ClockStep seconds, up to MaxClock; at most
\* MaxAcquires calls of acquire are made.
ClockStep == 30
MaxClock == 90
MaxAcquires == 3

\* RateLimiter::new(requests_per_minute) is called with one of these.
LimiterSizes == {1, 2}

\* The tasks that call acquire().await.
Tasks == {"t1", "t2", "t3"}

should_reset == now - last_reset >= WindowSeconds

available_permits == semaphore

total_permits == requests_per_minute

\* RateLimiter::new(2), as the test constructs it.
TestRequestsPerMinute == 2

LimiterInit ==
    /\ requests_per_minute = TestRequestsPerMinute
    /\ semaphore = requests_per_minute
    /\ last_reset = 0
    /\ now = 0
    /\ acquire_pc = [t \in Tasks |-> "idle"]
    /\ completed = <<>>

InFlight == {t \in Tasks : acquire_pc[t] # "idle"}

\* RateLimiter::new(requests_per_minute): a new limiter replaces the old one.
RateLimiter_new(n) ==
    /\ InFlight = {}
    /\ requests_per_minute' = n
    /\ semaphore' = n
    /\ last_reset' = now
    /\ completed' = <<>>
    /\ UNCHANGED <<now, acquire_pc>>
    /\ UNCHANGED <<integrity_vars, registry_vars, validator_vars, types_vars, retry_vars, reporter_vars>>

\* acquire, up to the await: should_reset() is evaluated and changes nothing.
acquire_call(t) ==
    /\ acquire_pc[t] = "idle"
    /\ Len(completed) + Cardinality(InFlight) < MaxAcquires
    /\ should_reset \in BOOLEAN
    /\ acquire_pc' = [acquire_pc EXCEPT ![t] = "waiting"]
    /\ UNCHANGED <<requests_per_minute, semaphore, last_reset, now, completed>>
    /\ UNCHANGED <<integrity_vars, registry_vars, validator_vars, types_vars, retry_vars, reporter_vars>>

\* let _permit = self.semaphore.acquire().await: waits for a permit.
acquire_permit(t) ==
    /\ acquire_pc[t] = "waiting"
    /\ semaphore > 0
    /\ semaphore' = semaphore - 1
    /\ acquire_pc' = [acquire_pc EXCEPT ![t] = "holding"]
    /\ UNCHANGED <<requests_per_minute, last_reset, now, completed>>
    /\ UNCHANGED <<integrity_vars, registry_vars, validator_vars, types_vars, retry_vars, reporter_vars>>

\* Ok(()): the function returns and _permit is dropped, which gives the
\* permit back to the semaphore.
acquire_return(t) ==
    /\ acquire_pc[t] = "holding"
    /\ semaphore' = semaphore + 1
    /\ acquire_pc' = [acquire_pc EXCEPT ![t] = "idle"]
    /\ completed' = Append(completed, now)
    /\ UNCHANGED <<requests_per_minute, last_reset, now>>
    /\ UNCHANGED <<integrity_vars, registry_vars, validator_vars, types_vars, retry_vars, reporter_vars>>

\* Time passes.
tick ==
    /\ now < MaxClock
    /\ now' = now + ClockStep
    /\ UNCHANGED <<requests_per_minute, semaphore, last_reset, acquire_pc, completed>>
    /\ UNCHANGED <<integrity_vars, registry_vars, validator_vars, types_vars, retry_vars, reporter_vars>>

LimiterNext ==
    \/ \E n \in LimiterSizes : RateLimiter_new(n)
    \/ \E t \in Tasks : acquire_call(t)
    \/ \E t \in Tasks : acquire_permit(t)
    \/ \E t \in Tasks : acquire_return(t)
    \/ tick

(***************************************************************************)
(* RetryConfig and RetryExecutor (http/retry.rs)                           *)
(***************************************************************************)

\* The longest attempt number should_retry is asked about.
MaxAttemptAsked == 5

\* RetryConfig::new(max_retries) is called with one of these.
RetryLimits == {0, 1, 2, 3}

\* should_retry with the bound left out by one.
should_retry_strict(attempt_number) == attempt_number < max_retries

\* attempt <= self.max_retries
should_retry(attempt_number) == attempt_number <= max_retries

\* The error the operation returns at an attempt.
ErrorOf(attempt_number) == "error of attempt " \o ToString(attempt_number)

RetryCall(op, argument, ret) == [op |-> op, argument |-> argument, ret |-> ret]

\* RetryConfig::default(): max_retries: 3
DefaultMaxRetries == 3

RetryInit ==
    /\ max_retries = DefaultMaxRetries
    /\ retry_pc = "idle"
    /\ attempt = 0
    /\ last_error = None
    /\ calls = <<>>
    /\ retry_result = RetryCall("new", max_retries, None)

\* RetryConfig::new(max_retries) and RetryExecutor::new(config)
RetryConfig_new(n) ==
    /\ retry_pc \in {"idle", "done"}
    /\ max_retries' = n
    /\ retry_pc' = "idle"
    /\ attempt' = 0
    /\ last_error' = None
    /\ calls' = <<>>
    /\ retry_result' = RetryCall("new", n, None)
    /\ UNCHANGED <<integrity_vars, registry_vars, validator_vars, types_vars, limiter_vars,
                   reporter_vars>>

\* config.should_retry(attempt), called on its own.
RetryConfig_should_retry(attempt_number) ==
    /\ retry_pc \in {"idle", "done"}
    /\ retry_result' = RetryCall("should_retry", attempt_number,
                                 should_retry(attempt_number))
    /\ UNCHANGED <<max_retries, retry_pc, attempt, last_error, calls>>
    /\ UNCHANGED <<integrity_vars, registry_vars, validator_vars, types_vars, limiter_vars,
                   reporter_vars>>

\* execute: let mut attempt = 1; let mut last_error = None; loop { operation() ..
execute ==
    /\ retry_pc \in {"idle", "done"}
    /\ retry_pc' = "calling"
    /\ attempt' = 1
    /\ last_error' = None
    /\ calls' = <<>>
    /\ retry_result' = RetryCall("execute", None, None)
    /\ UNCHANGED max_retries
    /\ UNCHANGED <<integrity_vars, registry_vars, validator_vars, types_vars, limiter_vars,
                   reporter_vars>>

\* operation().await gives Ok(result): return Ok(result).
operation_ok(result) ==
    /\ retry_pc = "calling"
    /\ calls' = Append(calls, Ok(result))
    /\ retry_result' = RetryCall("execute", None, Ok(result))
    /\ retry_pc' = "done"
    /\ UNCHANGED <<max_retries, attempt, last_error>>
    /\ UNCHANGED <<integrity_vars, registry_vars, validator_vars, types_vars, limiter_vars,
                   reporter_vars>>

\* operation().await gives Err(e): give up with the error, or sleep for the
\* backoff.
operation_err ==
    /\ retry_pc = "calling"
    /\ calls' = Append(calls, Err(ErrorOf(attempt)))
    /\ last_error' = ErrorOf(attempt)
    /\ IF ~should_retry(attempt)
       THEN /\ retry_result' = RetryCall("execute", None, Err(ErrorOf(attempt)))
            /\ retry_pc' = "done"
       ELSE /\ retry_pc' = "sleeping"
            /\ UNCHANGED retry_result
    /\ UNCHANGED <<max_retries, attempt>>
    /\ UNCHANGED <<integrity_vars, registry_vars, validator_vars, types_vars, limiter_vars,
                   reporter_vars>>

\* tokio::time::sleep(backoff).await; attempt += 1;
sleep_over ==
    /\ retry_pc = "sleeping"
    /\ attempt' = attempt + 1
    /\ retry_pc' = "calling"
    /\ UNCHANGED <<max_retries, last_error, calls, retry_result>>
    /\ UNCHANGED <<integrity_vars, registry_vars, validator_vars, types_vars, limiter_vars,
                   reporter_vars>>

RetryNext ==
    \/ \E n \in RetryLimits : RetryConfig_new(n)
    \/ \E attempt_number \in 0..MaxAttemptAsked : RetryConfig_should_retry(attempt_number)
    \/ execute
    \/ \E result \in {"response", "created"} : operation_ok(result)
    \/ operation_err
    \/ sleep_over

\* A second set of calls on the validator, for the keys of a plain node and
\* the order of the dispatch.
EmptyRequiredSchema == Obj([type |-> Str("object"), required |-> Arr(<<>>)])
ItemsRequiredSchema ==
    Obj([type |-> Str("array"),
         items |-> Obj([required |-> Arr(<<Str("id")>>),
                        properties |-> Obj([id |-> StringSchema])])])

RequiredSchemas ==
    {UserSchema, RequiredSchema, EmptyRequiredSchema, ItemsRequiredSchema}

\* Nodes with more than one of the keys the dispatch looks at, and with
\* other keys next to them.
DispatchNodes ==
    { Obj(("$ref" :> Str("base")) @@ [type |-> Str("number")]),
      Obj(("$ref" :> Str("base")) @@ [allOf |-> Arr(<<NumberSchema>>)]),
      Obj(("$ref" :> Str("other")) @@ [type |-> Str("string"), minLength |-> Num(1)]),
      Obj(("$ref" :> Str("other"))
          @@ [anyOf |-> Arr(<<StringSchema, NumberSchema>>),
              required |-> Arr(<<Str("id")>>)]),
      Obj([allOf |-> Arr(<<StringSchema>>), anyOf |-> Arr(<<NumberSchema>>),
           type |-> Str("number")]),
      Obj([anyOf |-> Arr(<<StringSchema, NumberSchema>>),
           oneOf |-> Arr(<<NumberSchema, ShortSchema>>),
           required |-> Arr(<<Str("id")>>)]),
      Obj([oneOf |-> Arr(<<StringSchema, NumberSchema>>), not |-> StringSchema,
           maximum |-> Num(0)]),
      Obj([not |-> StringSchema, type |-> Str("string"),
           properties |-> Obj([id |-> StringSchema])]) }

\* A node as the schema of the property id.
AsProperty(node) == Obj([properties |-> Obj([id |-> node])])

\* Plain nodes with additionalProperties: false or a schema, with and
\* without properties.
AdditionalNodes ==
    { ClosedSchema,
      Obj([additionalProperties |-> Bool(FALSE)]),
      Obj([properties |-> Obj([id |-> StringSchema]),
           additionalProperties |-> NumberSchema]),
      Obj([additionalProperties |-> NumberSchema]) }

\* A node as the schema of the property user.
UnderUser(node) == Obj([properties |-> Obj([user |-> node])])

NodeSchemas ==
    RequiredSchemas \cup DispatchNodes \cup {AsProperty(node) : node \in DispatchNodes}
    \cup AdditionalNodes \cup {UnderUser(node) : node \in AdditionalNodes}

NodeDocs ==
    { Str("x"), Num(-1), Num(5), EmptyObj,
      Obj([id |-> Str("x")]),
      Obj([id |-> Str("x"), age |-> Num(5)]),
      Obj([age |-> Num(-1)]),
      Obj([id |-> Str(""), name |-> Str("n")]),
      Arr(<<EmptyObj>>),
      Arr(<<Obj([id |-> Str("")])>>),
      Obj([user |-> Obj([id |-> Str("x"), age |-> Num(-1)])]) }

NodeRegistrableSchemas == {StringSchema, ClosedSchema, Not(StringSchema)}

ValidatorNodesNext ==
    \/ \E name \in ValidatorNames, schema \in NodeRegistrableSchemas :
            SchemaValidator_register_schema(name, schema)
    \/ \E data \in NodeDocs, schema_name \in ValidatorNames :
            validate(data, schema_name)
    \/ \E data \in NodeDocs, schema \in NodeSchemas :
            validate_against_schema(data, schema)
    \/ \E name \in ValidatorNames : SchemaValidator_remove_schema(name)

\* The schema documents offered for registration, to the validator and to
\* the registry.
RegistrationSchemas ==
    { ObjectSchema, Ref("base"), Obj([allOf |-> Arr(<<>>)]),
      AnyOf(StringSchema, NumberSchema), OneOf(StringSchema, NumberSchema),
      Not(StringSchema), KeylessSchema, Obj([invalid |-> Str("schema")]),
      EmptyObj, Str("object"), Arr(<<ObjectSchema>>), Null, Bool(TRUE) }

RegistrationNext ==
    \/ \E name \in ValidatorNames, schema \in RegistrationSchemas :
            SchemaValidator_register_schema(name, schema)
    \/ \E schema \in RegistrationSchemas :
            SchemaRegistry_register_schema(SchemaMetadata("user", "1.0", schema, <<>>, <<>>))
    \/ \E version \in {"1.0", "2.0"}, new_schema \in RegistrationSchemas :
            SchemaRegistry_update_schema("user", version, new_schema)

\* The four validating calls side by side, each on a few documents that
\* pass and a few that fail.
ResultNames == {"base", "missing"}
ResultSchemas == {UserSchema, StringSchema, Ref("base")}
ResultDocs == {Str("x"), Obj([id |-> Str("x")]), Obj([id |-> Str(""), age |-> Num(-1)])}
ResultConstraints ==
    { IntegrityConstraint("age_constraint", "Range", "age",
                          Obj([min |-> Num(0), max |-> Num(120)]), "High") }
ResultIntegrityDocs ==
    { Obj([name |-> Str("John"), age |-> Num(30)]),
      Obj([name |-> Str("John"), age |-> Num(150)]) }
ResultTypeValues == {Str("hi"), Num(5)}
ResultTypeConstraints == {TypeConstraint("length_hint", "MinLength", Num(3), "Warning")}

ResultsNext ==
    \/ \E schema \in ResultSchemas : SchemaValidator_register_schema("base", schema)
    \/ \E data \in ResultDocs, schema_name \in ResultNames : validate(data, schema_name)
    \/ \E data \in ResultDocs, schema \in ResultSchemas \ {Ref("base")} :
            validate_against_schema(data, schema)
    \/ \E constraint \in ResultTypeConstraints : TypeValidator_add_constraint(constraint)
    \/ \E value \in ResultTypeValues : validate_type(value, "string")
    \/ \E constraint \in ResultConstraints : add_constraint(constraint)
    \/ \E data \in ResultIntegrityDocs : check_integrity(data, "test")

\* Constraints at the paths get_value_by_path is given, and documents to
\* resolve them in.
PathConstraints ==
    { IntegrityConstraint("whole", "NotNull", "", None, "High"),
      IntegrityConstraint("root", "NotNull", "root", None, "High"),
      IntegrityConstraint("root_fk", "ForeignKey", "", Str("John"), "Low"),
      IntegrityConstraint("user_age", "Range", "user.age",
                          Obj([min |-> Num(0)]), "Medium"),
      IntegrityConstraint("name_set", "NotNull", "user.name", None, "Critical"),
      IntegrityConstraint("first", "NotNull", "user.0", None, "Low"),
      IntegrityConstraint("below", "NotNull", "name.first", None, "Low"),
      IntegrityConstraint("name_unique", "Unique", "user.name", None, "High"),
      IntegrityConstraint("name_fk", "ForeignKey", "name", Str("Jane"), "Low"),
      IntegrityConstraint("name_email", "Format", "name", Str("email"), "Medium"),
      IntegrityConstraint("custom", "Custom", "user.id", None, "Critical") }

PathDocs ==
    { Null, Str("John"),
      Obj([user |-> Obj([age |-> Num(-1), name |-> Null])]),
      Obj([user |-> Arr(<<Null>>), name |-> Str("John")]),
      Obj([name |-> Obj([age |-> Null])]) }

PathsNext ==
    \/ \E constraint \in PathConstraints : add_constraint(constraint)
    \/ \E data \in PathDocs : check_integrity(data, "test")
    \/ clear_constraints

\* Schemas that refer to registered names, themselves included: by $ref
\* alone, under not, under a property, and as the second branch of anyOf.
CycleNames == {"a", "b"}
TreeSchema(name) ==
    Obj([type |-> Str("object"), properties |-> Obj([id |-> Ref(name)])])
EitherSchema(name) ==
    Obj([type |-> Str("string"), anyOf |-> Arr(<<StringSchema, Ref(name)>>)])
CycleSchemas ==
    { Ref("a"), Ref("b"), StringSchema, TreeSchema("a"), EitherSchema("a"),
      AllOf(StringSchema, Not(Ref("a"))) }
CycleDocs ==
    { Str("x"), Num(5), Obj([id |-> Str("x")]),
      Obj([id |-> Obj([id |-> Str("x")])]) }

CyclesNext ==
    \/ \E name \in CycleNames, schema \in CycleSchemas :
            SchemaValidator_register_schema(name, schema)
    \/ \E data \in CycleDocs, schema_name \in CycleNames : validate(data, schema_name)
    \/ \E data \in CycleDocs, schema \in {Ref("a"), Not(Ref("b"))} :
            validate_against_schema(data, schema)
    \/ \E name \in CycleNames : SchemaValidator_remove_schema(name)

\* Nodes and documents on which one validation finds several errors.
OrderSchema ==
    Obj([type |-> Str("array"),
         required |-> Arr(<<Str("name"), Str("b")>>),
         properties |-> Obj([id |-> StringSchema, age |-> NumberSchema]),
         additionalProperties |-> Bool(FALSE)])
ItemsOrderSchema ==
    Obj([type |-> Str("object"), items |-> StringSchema, minItems |-> Num(3)])
OrderSchemas ==
    { OrderSchema, ItemsOrderSchema,
      Obj([properties |-> Obj([user |-> OrderSchema, a |-> ItemsOrderSchema])]),
      Obj([properties |-> Obj([id |-> NumberSchema]),
           additionalProperties |-> StringSchema]),
      AllOf(NumberSchema, DigitsSchema),
      AnyOf(NumberSchema, DigitsSchema),
      OneOf(NumberSchema, DigitsSchema),
      OneOf(OrderSchema, ItemsOrderSchema),
      Obj([oneOf |-> Arr(<<StringSchema, NumberSchema, Ref("base")>>)]),
      Not(AllOf(NumberSchema, DigitsSchema)),
      Ref("base") }
OrderDocs ==
    { Str(""), Str("x"), Num(-1),
      Obj([id |-> Str(""), age |-> Num(-1), user |-> Null, test |-> Num(-1)]),
      Obj([user |-> Obj([id |-> Str(""), age |-> Num(-1), test |-> Null]),
           a |-> Arr(<<Num(1), Str("")>>)]),
      Arr(<<Num(1), Str(""), Null>>), Arr(<<Str("x"), Num(2)>>) }

OrderNext ==
    \/ \E schema \in {OrderSchema, DigitsSchema} :
            SchemaValidator_register_schema("base", schema)
    \/ \E data \in OrderDocs : validate(data, "base")
    \/ \E data \in OrderDocs, schema \in OrderSchemas :
            validate_against_schema(data, schema)

(***************************************************************************)
(* ValidationErrorReporter and SuggestionEngine (validation/errors.rs)     *)
(***************************************************************************)

\* At most this many errors are held by the reporter.
MaxErrors == 3

ValidationErrorTypes ==
    { "SchemaValidation", "TypeValidation", "IntegrityViolation",
      "ConstraintViolation", "FormatError", "RequiredFieldMissing",
      "InvalidValue", "CustomValidation" }

\* ValidationError; suggestion, context and timestamp are not read by the
\* calls modelled.
ValidationError(error_type, path, message, severity) ==
    [error_type |-> error_type, path |-> path, message |-> message,
     severity |-> severity]

\* ValidationSuggestion; the confidence is kept as it is written.
ValidationSuggestion(title, description, action, confidence) ==
    [title |-> title, description |-> description, action |-> action,
     confidence |-> confidence]

SuggestionPattern(pattern, suggestion_template, confidence, action) ==
    [pattern |-> pattern, suggestion_template |-> suggestion_template,
     confidence |-> confidence, action |-> action]

\* str::contains(&str)
str_contains(s, p) ==
    \/ p = ""
    \/ \E i \in 1..(Len(s) - Len(p) + 1) : SubSeq(s, i, i + Len(p) - 1) = p

\* error.message.contains(pattern) || error.path.contains(pattern)
matches_pattern(error, pattern) ==
    str_contains(error.message, pattern) \/ str_contains(error.path, pattern)

generate_generic_suggestion(error) ==
    CASE error.error_type = "SchemaValidation" ->
            ValidationSuggestion("Fix Schema Validation",
                "Update the data to match the required schema", "Fix", "0.7")
      [] error.error_type = "TypeValidation" ->
            ValidationSuggestion("Fix Type Validation",
                "Convert the value to the expected type", "Convert", "0.8")
      [] error.error_type = "RequiredFieldMissing" ->
            ValidationSuggestion("Add Required Field",
                "Add the missing required field", "Add", "0.9")
      [] error.error_type = "ConstraintViolation" ->
            ValidationSuggestion("Fix Constraint Violation",
                "Update the value to meet the constraint requirements", "Fix", "0.8")
      [] OTHER ->
            ValidationSuggestion("Fix Validation Error",
                "Review and correct the validation error", "Validate", "0.5")

\* SuggestionEngine::generate_suggestion: the suggestion of the first pattern
\* of the map that matches, else the generic one.  The map is a HashMap and
\* its iteration order is not fixed: with several matching patterns any of
\* them can be the first, so the operator gives the set of possible results.
generate_suggestion(patterns, error) ==
    LET matching == {key \in DOMAIN patterns : matches_pattern(error, key)} IN
    IF matching # {}
    THEN { ValidationSuggestion("Fix " \o error.error_type,
                                patterns[key].suggestion_template,
                                patterns[key].action, patterns[key].confidence)
           : key \in matching }
    ELSE {generate_generic_suggestion(error)}

\* The characters of the titles, in the order of their bytes.
ByteOrder == " ABCDEFGHIJKLMNOPQRSTUVWXYZabcdefghijklmnopqrstuvwxyz"

\* a.cmp(b) == Ordering::Less, on strings: decided by the bytes at the first
\* position where the two differ, or by the lengths when one is a prefix.
str_less(a, b) ==
    LET shorter == IF Len(a) < Len(b) THEN Len(a) ELSE Len(b)
        differing == {i \in 1..shorter : SubSeq(a, i, i) # SubSeq(b, i, i)}
    IN  IF differing = {} THEN Len(a) < Len(b)
        ELSE LET first == CHOOSE i \in differing : \A k \in differing : i <= k
             IN  find(ByteOrder, SubSeq(a, first, first))
                    < find(ByteOrder, SubSeq(b, first, first))

\* One element put into a list sorted by title, behind the elements that do
\* not compare greater: the sort is stable.
RECURSIVE insert_by_title(_, _)
insert_by_title(sorted, suggestion) ==
    IF sorted = <<>> THEN <<suggestion>>
    ELSE IF str_less(suggestion.title, Head(sorted).title)
         THEN <<suggestion>> \o sorted
         ELSE <<Head(sorted)>> \o insert_by_title(Tail(sorted), suggestion)

\* suggestions.sort_by(|a, b| a.title.cmp(&b.title))
RECURSIVE sort_by_title(_)
sort_by_title(suggestions) ==
    IF suggestions = <<>> THEN <<>>
    ELSE insert_by_title(sort_by_title(SubSeq(suggestions, 1, Len(suggestions) - 1)),
                         suggestions[Len(suggestions)])

\* The list handed on as it is.
dedup_by_title_nothing(suggestions) == suggestions

\* suggestions.dedup_by(|a, b| a.title == b.title): of consecutive elements
\* with the same title the first stays.
dedup_by_title(suggestions) ==
    LET positions == [i \in DOMAIN suggestions |-> i]
        kept == SelectSeq(positions, LAMBDA i :
                    i = 1 \/ suggestions[i].title # suggestions[i - 1].title)
    IN  [j \in DOMAIN kept |-> suggestions[kept[j]]]

\* What generate_suggestions returns for the errors held: the reporter's
\* engine is the one made by new(), which has no patterns and gets none.
suggestions_for(errors) ==
    dedup_by_title(sort_by_title(
        [i \in DOMAIN errors |-> generate_generic_suggestion(errors[i])]))

\* The errors reported, and the patterns given to an engine.
ErrorPool ==
    { ValidationError("SchemaValidation", "user.age", "Expected number", "Error"),
      ValidationError("RequiredFieldMissing", "user.id",
                      "Required field 'id' is missing", "Critical"),
      ValidationError("FormatError", "email", "Invalid email", "Info"),
      ValidationError("InvalidValue", "user.tags", "Invalid value", "Error") }

ErrorLists ==
    { << ValidationError("FormatError", "email", "Invalid email", "Info"),
         ValidationError("InvalidValue", "user.tags", "Invalid value", "Error") >>,
      << ValidationError("TypeValidation", "user.name", "Expected string", "Error"),
         ValidationError("TypeValidation", "user.name", "Expected string", "Error") >> }

PatternPool ==
    { SuggestionPattern("age", "Check the age", "0.9", "Fix"),
      SuggestionPattern("user", "Check the user", "0.6", "Validate") }

ReporterCall(op, argument, ret) == [op |-> op, argument |-> argument, ret |-> ret]

ReporterInit ==
    /\ reporter_errors = <<>>
    /\ engine_patterns = EmptyMap
    /\ reporter_result = ReporterCall("new", None, None)

others_unchanged_by_reporter ==
    UNCHANGED <<integrity_vars, registry_vars, validator_vars, types_vars, http_vars>>

add_error(error) ==
    /\ Len(reporter_errors) < MaxErrors
    /\ reporter_errors' = Append(reporter_errors, error)
    /\ reporter_result' = ReporterCall("add_error", error, None)
    /\ UNCHANGED engine_patterns
    /\ others_unchanged_by_reporter

add_errors(errors) ==
    /\ Len(reporter_errors) + Len(errors) <= MaxErrors
    /\ reporter_errors' = reporter_errors \o errors
    /\ reporter_result' = ReporterCall("add_errors", errors, None)
    /\ UNCHANGED engine_patterns
    /\ others_unchanged_by_reporter

clear_errors ==
    /\ reporter_errors' = <<>>
    /\ reporter_result' = ReporterCall("clear_errors", None, None)
    /\ UNCHANGED engine_patterns
    /\ others_unchanged_by_reporter

generate_suggestions ==
    /\ reporter_result' =
            ReporterCall("generate_suggestions", reporter_errors,
                         suggestions_for(reporter_errors))
    /\ UNCHANGED <<reporter_errors, engine_patterns>>
    /\ others_unchanged_by_reporter

\* SuggestionEngine::add_pattern, on an engine of its own.
add_pattern(pattern) ==
    /\ engine_patterns' = map_insert(engine_patterns, pattern.pattern, pattern)
    /\ reporter_result' = ReporterCall("add_pattern", pattern, None)
    /\ UNCHANGED reporter_errors
    /\ others_unchanged_by_reporter

\* SuggestionEngine::generate_suggestion, on that engine.
SuggestionEngine_generate_suggestion(error) ==
    /\ \E suggestion \in generate_suggestion(engine_patterns, error) :
            reporter_result' = ReporterCall("generate_suggestion", error, suggestion)
    /\ UNCHANGED <<reporter_errors, engine_patterns>>
    /\ others_unchanged_by_reporter

ReporterNext ==
    \/ \E error \in ErrorPool : add_error(error)
    \/ \E errors \in ErrorLists : add_errors(errors)
    \/ clear_errors
    \/ generate_suggestions
    \/ \E pattern \in PatternPool : add_pattern(pattern)
    \/ \E error \in ErrorPool : SuggestionEngine_generate_suggestion(error)

\* The entries and documents of the calls that register, update, deprecate
\* and remove.
LifecycleEntries ==
    { SchemaMetadata("user", "1.0", ObjectSchema, <<"t">>, <<>>),
      SchemaMetadata("user", "2.0", ObjectSchema, <<>>, <<"user">>),
      SchemaMetadata("ns:user", "1.0", ObjectSchema, <<>>, <<>>),
      SchemaMetadata("ns", "user:1.0", ObjectSchema, <<>>, <<>>) }

LifecyclePairs == {<<m.name, m.version>> : m \in LifecycleEntries}

UpdateSchemas == {StringSchema, KeylessSchema}

LifecycleNext ==
    \/ \E metadata \in LifecycleEntries : SchemaRegistry_register_schema(metadata)
    \/ \E pair \in LifecyclePairs, new_schema \in UpdateSchemas :
            SchemaRegistry_update_schema(pair[1], pair[2], new_schema)
    \/ \E pair \in LifecyclePairs : SchemaRegistry_deprecate_schema(pair[1], pair[2])
    \/ \E pair \in LifecyclePairs : SchemaRegistry_remove_schema(pair[1], pair[2])

(***************************************************************************)
(* The specifications: the whole library, and each object on its own.     *)
(***************************************************************************)
Init ==
    /\ IntegrityInit /\ RegistryInit /\ ValidatorInit /\ TypesInit
    /\ LimiterInit /\ RetryInit /\ ReporterInit

Next ==
    \/ IntegrityNext \/ RegistryNext \/ ValidatorNext \/ TypesNext \/ ConvertNext
    \/ LimiterNext \/ RetryNext \/ RegistrationNext \/ ResultsNext \/ LifecycleNext \/ ReporterNext \/ OrderNext \/ CyclesNext \/ PathsNext

Spec == Init /\ [][Next]_vars

SpecIntegrity == Init /\ [][IntegrityNext]_vars

SpecRegistry == Init /\ [][RegistryNext]_vars

SpecValidator == Init /\ [][ValidatorNext]_vars

SpecValidatorNodes == Init /\ [][ValidatorNodesNext]_vars

SpecRegistration == Init /\ [][RegistrationNext]_vars

SpecResults == Init /\ [][ResultsNext]_vars

SpecLifecycle == Init /\ [][LifecycleNext]_vars

SpecReporter == Init /\ [][ReporterNext]_vars

SpecOrder == Init /\ [][OrderNext]_vars

SpecCycles == Init /\ [][CyclesNext]_vars

SpecPaths == Init /\ [][PathsNext]_vars

SpecTypes == Init /\ [][TypesNext]_vars

SpecConvert == Init /\ [][ConvertNext]_vars

SpecLimiter == Init /\ [][LimiterNext]_vars

SpecRetry == Init /\ [][RetryNext]_vars

(***************************************************************************)
(* Properties of the DataIntegrityChecker                                  *)
(***************************************************************************)
Severities == {"Low", "Medium", "High", "Critical"}

CountSeverity(violations, severity) ==
    Cardinality({i \in DOMAIN violations : violations[i].severity = severity})

WeightedPenalty(violations) ==
    5 * CountSeverity(violations, "Low") + 15 * CountSeverity(violations, "Medium")
    + 30 * CountSeverity(violations, "High") + 50 * CountSeverity(violations, "Critical")

Checked == integrity_result.op = "check_integrity"

\* C8: the consistency score a check returns is max(0, 100 - (5 per Low, 15 per
\* Medium, 30 per High, 50 per Critical violation)); it is 100 without
\* violations (so with no checksum for the key and no constraints), it is
\* never below 0, and one more violation of any severity never raises it.
C8_ConsistencyScore ==
    Checked =>
        LET r == integrity_result.result IN
        /\ r.consistency_score = Max(0, 100 - WeightedPenalty(r.violations))
        /\ r.violations = <<>> => r.consistency_score = 100
        /\ (integrity_result.key \notin DOMAIN checksums /\ constraints = <<>>)
                => r.consistency_score = 100
        /\ r.consistency_score >= 0
        /\ \A severity \in Severities :
                calculate_consistency_score(
                    Append(r.violations, IntegrityViolation("RangeViolation", "age", severity)))
                    <= r.consistency_score

\* C8's case: a check whose penalties add up to more than 100.
C8_Witness ==
    /\ Checked
    /\ WeightedPenalty(integrity_result.result.violations) > 100
    /\ integrity_result.result.consistency_score = 0

ChecksumMismatches(violations) ==
    {i \in DOMAIN violations : violations[i].violation_type = "ChecksumMismatch"}

John(age) == Obj([name |-> Str("John"), age |-> Num(age)])

AgeConstraint ==
    IntegrityConstraint("age_constraint", "Range", "age",
                        Obj([min |-> Num(0), max |-> Num(120)]), "High")

\* C10: with the checksum "abc123" added under "test_data" and the Range
\* constraint 0..120 on "age", the check of {"name":"John","age":30} under
\* "test_data" is valid, and the check of the same document with age 150 is
\* not valid and lists a violation.
C10_TestScenario ==
    ( /\ Checked
      /\ integrity_result.key = "test_data"
      /\ "test_data" \in DOMAIN checksums
      /\ checksums["test_data"] = "abc123"
      /\ constraints = <<AgeConstraint>> )
    => /\ integrity_result.data = John(30) => integrity_result.result.is_valid
       /\ integrity_result.data = John(150) =>
                /\ ~integrity_result.result.is_valid
                /\ integrity_result.result.violations # <<>>

(***************************************************************************)
(* Properties of the SchemaRegistry                                        *)
(***************************************************************************)

\* The stored entries, and whether a (name, version) pair or a name is among them.
StoredEntries == {registry_schemas[key] : key \in DOMAIN registry_schemas}

IsRegistered(name, version) ==
    \E m \in StoredEntries : m.name = name /\ m.version = version

HasVersion(name) == \E m \in StoredEntries : m.name = name

Registering == registry_result'.op = "register_schema"

\* C4: register_schema for a (name, version) pair that is already registered
\* returns an error and leaves the stored entries, the version history and the
\* tag index as they were.
C4_DuplicateRejected ==
    [][ ( /\ Registering
          /\ IsRegistered(registry_result'.name, registry_result'.version) )
        => ( /\ ~registry_result'.ret.ok
             /\ UNCHANGED <<registry_schemas, versions, tags>> ) ]_vars

\* C4's case: a well-formed entry with no dependencies, registered a second time.
C4_Witness ==
    /\ registry_result.op = "register_schema"
    /\ registry_result.metadata.schema = ObjectSchema
    /\ registry_result.metadata.dependencies = <<>>
    /\ IsRegistered(registry_result.name, registry_result.version)
    /\ registry_result.ret = Err("Schema '{}' version '{}' already exists")

Last(s) == s[Len(s)]

\* C5: get_latest_schema(name) returns the entry of the version of that name
\* registered last among those not removed, and an error when the name has none.
C5_LatestIsLastRegistered ==
    \A name \in RegistryNames :
        LET latest == get_latest_schema(name) IN
        IF registration_log[name] = <<>> THEN ~latest.ok
        ELSE /\ latest.ok
             /\ latest.value.name = name
             /\ latest.value.version = Last(registration_log[name])

InSeq(x, s) == \E i \in DOMAIN s : s[i] = x

\* C6: a remove_schema(name, version) of a registered pair removes the stored
\* entry and its version-history entry; every other stored entry stays as it
\* is under get_schema, keeps its version-history entry and stays in the
\* result of get_schemas_by_tag for every tag that returned it; and once no
\* version of the name is left, the name is gone from list_schemas,
\* get_schema_versions and every tag's result.
C6_RemoveUndoesRegistration ==
    [][ \A pair \in RegistryPairs :
        LET name == pair[1]
            version == pair[2]
            key == schema_key(name, version)
        IN
        ( /\ registry_result'.op = "remove_schema"
          /\ registry_result'.ret.ok
          /\ registry_result'.name = name
          /\ registry_result'.version = version
          /\ registry_result'.ret.value.name = name
          /\ registry_result'.ret.value.version = version )
        => /\ ~get_schema(name, version)'.ok
           /\ get_schema_versions(name)'.ok =>
                \A i \in DOMAIN get_schema_versions(name)'.value :
                    get_schema_versions(name)'.value[i].version # version
           /\ \A other \in DOMAIN registry_schemas \ {key} :
                LET m == registry_schemas[other] IN
                /\ get_schema(m.name, m.version)' = Ok(m)
                /\ get_schema_versions(m.name)'.ok
                /\ \E i \in DOMAIN get_schema_versions(m.name)'.value :
                        get_schema_versions(m.name)'.value[i].version = m.version
                /\ \A tag \in RegistryTags :
                        InSeq(m, get_schemas_by_tag(tag)) =>
                            InSeq(m, get_schemas_by_tag(tag)')
           /\ ~HasVersion(name)' =>
                /\ name \notin list_schemas'
                /\ ~get_schema_versions(name)'.ok
                /\ \A tag \in RegistryTags :
                        \A i \in DOMAIN get_schemas_by_tag(tag)' :
                            get_schemas_by_tag(tag)'[i].name # name
      ]_vars

SeqToSet(s) == {s[i] : i \in DOMAIN s}

\* C7: register_schema succeeds only if every name in the entry's dependencies
\* has a registered version at the time of the call; a failed call stores
\* nothing; and the error is that of the first failing check in the order
\* schema shape, duplicate (name, version), dependencies.
C7_DependenciesRegistered ==
    [][ Registering =>
        LET m == registry_result'.metadata
            ret == registry_result'.ret
            shape == SchemaRegistry_validate_schema(m.schema)
            duplicate == schema_key(m.name, m.version) \in DOMAIN registry_schemas
            missing == {dep \in SeqToSet(m.dependencies) : ~HasVersion(dep)}
        IN
        /\ ret.ok => missing = {}
        /\ ~ret.ok => UNCHANGED <<registry_schemas, versions, tags>>
        /\ ~shape.ok => ret = shape
        /\ (shape.ok /\ duplicate) => ret = Err("Schema '{}' version '{}' already exists")
        /\ (shape.ok /\ ~duplicate /\ missing # {}) => ret = Err("Dependency '{}' not found")
      ]_vars

(***************************************************************************)
(* Properties of the SchemaValidator                                       *)
(***************************************************************************)

\* The last call validated a document against a schema and returned a result.
Validated ==
    /\ validation_result.op \in {"validate", "validate_against_schema"}
    /\ validation_result.returned
    /\ validation_result.ret.ok

\* Validating data against schema on its own yields no errors.
Clean(data, schema) == validate_value(data, schema, "") = <<>>

\* The last call validated against a node {"oneOf": [S1, S2]}.
ValidatedOneOf ==
    /\ Validated
    /\ validation_result.schema \in OneOfSchemas

\* C1: validating D against {"oneOf": [S1, S2]} yields no errors if and only
\* if exactly one of S1, S2 yields no errors for D; with both branches clean,
\* or neither, the result is not clean.
C1_OneOfExactlyOne ==
    ValidatedOneOf =>
        LET D == validation_result.data
            branches == validation_result.schema.o.oneOf.a
            clean == {i \in 1..2 : Clean(D, branches[i])}
        IN  validation_result.ret.value.is_valid <=> Cardinality(clean) = 1

\* The last call validated against a node dispatched as {"not": S}.
ValidatedNot ==
    /\ Validated
    /\ is_object(validation_result.schema)
    /\ dispatch(validation_result.schema.o) = "not"

\* C2: validating D against {"not": S} yields no errors if and only if
\* validating D against S yields at least one error; when S is clean the
\* result is exactly one CustomValidationFailed error at the current path,
\* and when S is not clean none of its errors are surfaced.  The second
\* conjunct is the same for a `not` under the property "id".
C2_NotInverts ==
    /\ ValidatedNot =>
          LET D == validation_result.data
              S == validation_result.schema.o["not"]
              result == validation_result.ret.value
          IN  /\ result.is_valid <=> ~Clean(D, S)
              /\ Clean(D, S) =>
                    result.errors = <<SchemaError("", "CustomValidationFailed")>>
              /\ ~Clean(D, S) => result.errors = <<>>
    /\ ( /\ Validated
         /\ validation_result.schema = NestedNotSchema
         /\ is_object(validation_result.data)
         /\ "id" \in DOMAIN validation_result.data.o ) =>
          LET part == validation_result.data.o.id
              result == validation_result.ret.value
          IN  result.errors =
                IF validate_value(part, StringSchema, "id") = <<>>
                THEN <<SchemaError("id", "CustomValidationFailed")>>
                ELSE <<>>

\* Both cases of C2 have happened at the root, or the nested one has
\* produced its error.
C2_Witness ==
    \/ /\ ValidatedNot
       /\ validation_result.schema = Not(UserSchema)
       /\ validation_result.ret.value.errors
            = <<SchemaError("", "CustomValidationFailed")>>
    \/ /\ Validated
       /\ validation_result.schema = NestedNotSchema
       /\ validation_result.ret.value.errors
            = <<SchemaError("id", "CustomValidationFailed")>>

\* Every leaf constraint written in the node holds for the document part.
LeafConstraintsHold(data, schema_obj) ==
    /\ is_string(data) =>
        /\ has_u64(schema_obj, "minLength") => Len(data.s) >= schema_obj["minLength"].n
        /\ has_u64(schema_obj, "maxLength") => Len(data.s) <= schema_obj["maxLength"].n
        /\ (has_str(schema_obj, "pattern") /\ regex_compiles(schema_obj["pattern"].s))
                => regex_is_match(schema_obj["pattern"].s, data.s)
    /\ is_number(data) =>
        /\ has_f64(schema_obj, "minimum") => data.n >= schema_obj["minimum"].n
        /\ has_f64(schema_obj, "maximum") => data.n <= schema_obj["maximum"].n
    /\ is_array(data) =>
        /\ has_u64(schema_obj, "minItems") => Len(data.a) >= schema_obj["minItems"].n
        /\ has_u64(schema_obj, "maxItems") => Len(data.a) <= schema_obj["maxItems"].n

\* Every key the node lists as required is present in the object.
RequiredPresent(data, schema_obj) ==
    (has_array(schema_obj, "required") /\ is_object(data)) =>
        \A i \in 1..Len(schema_obj["required"].a) :
            is_string(schema_obj["required"].a[i])
                => schema_obj["required"].a[i].s \in DOMAIN data.o

\* The document satisfies the required lists and leaf constraints written in
\* the schema, at the root and under properties and items, whatever else the
\* nodes hold.
RECURSIVE Satisfies(_, _)
Satisfies(data, schema) ==
    is_object(schema) =>
        /\ RequiredPresent(data, schema.o)
        /\ LeafConstraintsHold(data, schema.o)
        /\ (has_object(schema.o, "properties") /\ is_object(data)) =>
              \A prop_name \in DOMAIN schema.o["properties"].o \cap DOMAIN data.o :
                  Satisfies(data.o[prop_name], schema.o["properties"].o[prop_name])
        /\ ("items" \in DOMAIN schema.o /\ is_array(data)) =>
              \A i \in 1..Len(data.a) : Satisfies(data.a[i], schema.o["items"])

\* The same, for the nodes the validator processes as plain nodes: a node
\* with a resolving $ref stands for the schema it names, an allOf for all its
\* branches, and nothing is said of anyOf, oneOf and not or of the keys
\* written next to a $ref or a combinator.
RECURSIVE SatisfiesAsDispatched(_, _)
SatisfiesAsDispatched(data, schema) ==
    is_object(schema) =>
        LET schema_obj == schema.o
            kind == dispatch(schema_obj)
        IN
        CASE kind = "$ref" ->
                SatisfiesAsDispatched(data, validator_schemas[schema_obj["$ref"].s])
          [] kind = "allOf" ->
                \A i \in 1..Len(schema_obj["allOf"].a) :
                    SatisfiesAsDispatched(data, schema_obj["allOf"].a[i])
          [] kind \in {"anyOf", "oneOf", "not"} -> TRUE
          [] kind = "plain" ->
                /\ RequiredPresent(data, schema_obj)
                /\ LeafConstraintsHold(data, schema_obj)
                /\ (has_object(schema_obj, "properties") /\ is_object(data)) =>
                      \A prop_name \in DOMAIN schema_obj["properties"].o \cap DOMAIN data.o :
                          SatisfiesAsDispatched(data.o[prop_name],
                                                schema_obj["properties"].o[prop_name])
                /\ ("items" \in DOMAIN schema_obj /\ is_array(data)) =>
                      \A i \in 1..Len(data.a) :
                          SatisfiesAsDispatched(data.a[i], schema_obj["items"])

\* C3 as stated: if validate(D, S) returns no errors then every key listed in
\* S.required is present in D and every leaf constraint present in S,
\* including those nested under properties and items, holds for the
\* corresponding part of D.
C3_CleanIsSound ==
    (Validated /\ validation_result.ret.value.is_valid) =>
        Satisfies(validation_result.data, validation_result.schema)

\* C3 amended: if validate(D, S) returns no errors then the required lists and
\* leaf constraints hold at every node processed as a plain node; keys
\* written next to a resolving $ref or a combinator are not covered.
C3_CleanIsSoundAtPlainNodes ==
    (Validated /\ validation_result.ret.value.is_valid) =>
        SatisfiesAsDispatched(validation_result.data, validation_result.schema)

\* A clean result for a schema with a required list and nested leaf
\* constraints, and one reached through a registered $ref.
C3_Witness ==
    /\ Validated
    /\ validation_result.ret.value.is_valid
    /\ \/ validation_result.schema = UserSchema
       \/ /\ validation_result.schema = AllOf(StringSchema, Ref("base"))
          /\ "base" \in DOMAIN validator_schemas

(***************************************************************************)
(* Properties of plain nodes: properties and required                      *)
(***************************************************************************)

\* The elements of a sequence.
Elements(s) == {s[i] : i \in 1..Len(s)}

\* The last call validated an object holding both "id" (a string) and "age"
\* (a number) against the schema
\* {type: object, properties: {id: {type: string, minLength: 1},
\*  age: {type: number, minimum: 0}}, required: [id, age]}.
ValidatedCompleteUser ==
    /\ Validated
    /\ validation_result.schema = UserSchema
    /\ is_object(validation_result.data)
    /\ {"id", "age"} \subseteq DOMAIN validation_result.data.o
    /\ is_string(validation_result.data.o.id)
    /\ is_number(validation_result.data.o.age)

\* C11: a document with every required key present whose property values
\* break leaf constraints yields exactly one ConstraintViolation per broken
\* constraint, at the path equal to the property name (no leading dot at the
\* root), and no RequiredFieldMissing error; {id: "", age: -1} yields exactly
\* two errors, ConstraintViolation at "id" and at "age".
C11_PropertyConstraintPaths ==
    ValidatedCompleteUser =>
        LET D == validation_result.data.o
            errors == validation_result.ret.value.errors
            broken == {prop_name \in {"id", "age"} :
                        \/ prop_name = "id" /\ Len(D.id.s) < 1
                        \/ prop_name = "age" /\ D.age.n < 0}
        IN  /\ Len(errors) = Cardinality(broken)
            /\ Elements(errors)
                = {SchemaError(prop_name, "ConstraintViolation") : prop_name \in broken}
            /\ (D.id = Str("") /\ D.age = Num(-1)) =>
                    /\ Len(errors) = 2
                    /\ Elements(errors) = {SchemaError("id", "ConstraintViolation"),
                                           SchemaError("age", "ConstraintViolation")}

\* {id: "", age: -1} has been validated against the schema and has two errors.
C11_Witness ==
    /\ ValidatedCompleteUser
    /\ validation_result.data = Obj([id |-> Str(""), age |-> Num(-1)])
    /\ Len(validation_result.ret.value.errors) = 2

\* The last call validated an object against a plain node with a required
\* array.
ValidatedRequired ==
    /\ Validated
    /\ is_object(validation_result.schema)
    /\ dispatch(validation_result.schema.o) = "plain"
    /\ has_array(validation_result.schema.o, "required")
    /\ is_object(validation_result.data)

\* The required names the object lacks.
MissingKeys(data, schema) ==
    {schema.o["required"].a[i].s : i \in
        {j \in 1..Len(schema.o["required"].a) :
            /\ is_string(schema.o["required"].a[j])
            /\ schema.o["required"].a[j].s \notin DOMAIN data.o}}

\* C12: an object lacking a key listed in required gets exactly one
\* RequiredFieldMissing error for that key, at "<node path>.<key>" (".age" at
\* the root), and no type or constraint error for the absent property even if
\* properties declares constraints for it; an empty required array adds no
\* errors.  The last conjunct is the node under items, at path "[0]".
C12_RequiredFieldMissing ==
    /\ ValidatedRequired =>
          LET D == validation_result.data
              S == validation_result.schema
              errors == validation_result.ret.value.errors
              missing_errors ==
                  SelectSeq(errors, LAMBDA e : e.error_type = "RequiredFieldMissing")
          IN  /\ Len(missing_errors) = Cardinality(MissingKeys(D, S))
              /\ Elements(missing_errors)
                    = {SchemaError("." \o key, "RequiredFieldMissing") :
                            key \in MissingKeys(D, S)}
              /\ \A key \in MissingKeys(D, S) : \A e \in Elements(errors) :
                    e.path # key
              /\ S.o["required"].a = <<>> => missing_errors = <<>>
    /\ ( /\ Validated
         /\ validation_result.schema = ItemsRequiredSchema
         /\ validation_result.data = Arr(<<EmptyObj>>) ) =>
          validation_result.ret.value.errors
            = <<SchemaError("[0].id", "RequiredFieldMissing")>>

\* {id: "x"} against the schema of the scenario has given the one error at
\* ".age".
C12_Witness ==
    /\ ValidatedRequired
    /\ validation_result.schema = UserSchema
    /\ validation_result.data = Obj([id |-> Str("x")])
    /\ validation_result.ret.value.errors
            = <<SchemaError(".age", "RequiredFieldMissing")>>

(***************************************************************************)
(* Properties of the TypeValidator                                         *)
(***************************************************************************)

\* The last call was convert_type(value, target_type).
Converted == type_result.op = "convert_type"

\* The strings whose lower-cased form is true/1/yes/on, and false/0/no/off.
TrueSpellings == {Str("true"), Str("TRUE"), Str("Yes"), Str("1"), Str("on")}
FalseSpellings == {Str("false"), Str("0"), Str("No"), Str("OFF")}

\* The strings of the model that do not spell a number.
NonNumericStrings ==
    {Str("abc"), Str("truthy"), Str(""), Str("NaN"), Str("true"), Str("Yes"),
     Str("on"), Str("false"), Str("No"), Str("OFF"), Str("TRUE")}

\* C13: convert_type(value, "boolean") maps a string to true when its
\* lower-cased form is one of true/1/yes/on, to false when it is one of
\* false/0/no/off, passes booleans through and returns an error for every
\* other input; a non-numeric string such as "abc" converted to "number" or
\* "integer" gives an error value, and an unknown target type is an error.
C13_ConvertType ==
    Converted =>
        LET value == type_result.value
            target_type == type_result.type_name
            ret == type_result.ret
        IN  /\ target_type = "boolean" =>
                /\ value \in TrueSpellings => ret = Ok(Bool(TRUE))
                /\ value \in FalseSpellings => ret = Ok(Bool(FALSE))
                /\ is_boolean(value) => ret = Ok(value)
                /\ (value \notin TrueSpellings \cup FalseSpellings /\ ~is_boolean(value))
                        => (~ret.ok /\ ret.error # "")
            /\ (target_type \in {"number", "integer"} /\ value \in NonNumericStrings)
                    => (~ret.ok /\ ret.error # "")
            /\ target_type \notin {"string", "number", "integer", "boolean",
                                   "array", "object", "null"}
                    => (~ret.ok /\ ret.error # "")

(***************************************************************************)
(* Properties of registration and of the results of the validating calls   *)
(***************************************************************************)

\* An object whose top level holds at least one of type, $ref, allOf.
Acceptable(schema) ==
    /\ is_object(schema)
    /\ DOMAIN schema.o \cap {"type", "$ref", "allOf"} # {}

\* C14: a schema document is accepted at registration (by
\* SchemaValidator::register_schema, SchemaRegistry::register_schema and
\* update_schema) only if it is an object whose top level has at least one of
\* the keys type, $ref, allOf; every other document is rejected with a
\* validation error at registration and nothing is stored.
C14_RegistrationSelfCheck ==
    [][ /\ ( /\ validation_result' # validation_result
             /\ validation_result'.op = "register_schema" ) =>
              LET schema == validation_result'.schema
                  ret == validation_result'.ret
              IN  /\ ret.ok => Acceptable(schema)
                  /\ ~Acceptable(schema) =>
                        /\ ~ret.ok /\ ret.error # ""
                        /\ UNCHANGED validator_schemas
        /\ ( /\ registry_result' # registry_result
             /\ registry_result'.op \in {"register_schema", "update_schema"} ) =>
              LET schema == IF registry_result'.op = "register_schema"
                            THEN registry_result'.metadata.schema
                            ELSE registry_result'.metadata
                  ret == registry_result'.ret
              IN  /\ ret.ok => Acceptable(schema)
                  /\ ~Acceptable(schema) =>
                        /\ ~ret.ok /\ ret.error # ""
                        /\ UNCHANGED <<registry_schemas, versions, tags>>
      ]_vars

\* Each of the three calls has rejected a document: the validator an object
\* without the keys, update_schema such an object for a registered entry.
C14_Witness ==
    /\ validation_result.op = "register_schema"
    /\ validation_result.schema = Obj([invalid |-> Str("schema")])
    /\ ~validation_result.ret.ok
    /\ registry_result.op = "update_schema"
    /\ registry_result.metadata = Not(StringSchema)
    /\ ~registry_result.ret.ok
    /\ schema_key(registry_result.name, registry_result.version) \in DOMAIN registry_schemas

\* C15: validation failures are reported in the result and never as an
\* error return: validate with a registered schema name,
\* validate_against_schema, validate_type and check_integrity, whenever they
\* return, return a result whose is_valid is false exactly when its list of
\* errors (violations) is non-empty; validate with a schema name that is not
\* registered returns an error and no result.
C15_FailuresAreResults ==
    /\ ( /\ validation_result.op = "validate"
         /\ validation_result.schema_name \notin DOMAIN validator_schemas ) =>
            /\ validation_result.returned
            /\ ~validation_result.ret.ok
            /\ validation_result.ret.error # ""
    /\ ( /\ validation_result.returned
         /\ \/ validation_result.op = "validate_against_schema"
            \/ /\ validation_result.op = "validate"
               /\ validation_result.schema_name \in DOMAIN validator_schemas ) =>
            /\ validation_result.ret.ok
            /\ validation_result.ret.value.is_valid
                    <=> validation_result.ret.value.errors = <<>>
    /\ type_result.op = "validate_type" =>
            /\ type_result.ret.ok
            /\ type_result.ret.value.is_valid <=> type_result.ret.value.errors = <<>>
    /\ integrity_result.op = "check_integrity" =>
            integrity_result.result.is_valid
                <=> integrity_result.result.violations = <<>>

\* All three validators hold a result that reports failures.
C15_Witness ==
    /\ validation_result.op = "validate"
    /\ validation_result.returned
    /\ validation_result.ret.ok
    /\ ~validation_result.ret.value.is_valid
    /\ Len(validation_result.ret.value.errors) >= 2
    /\ type_result.op = "validate_type"
    /\ ~type_result.ret.value.is_valid
    /\ integrity_result.op = "check_integrity"
    /\ ~integrity_result.result.is_valid

\* validate has been called with a schema name that is not registered.
C15_WitnessUnregistered ==
    /\ validation_result.op = "validate"
    /\ validation_result.schema_name = "missing"
    /\ ~validation_result.ret.ok

(***************************************************************************)
(* Properties of TypeValidator::validate_type                              *)
(***************************************************************************)

\* The constraints validate_type evaluates for a type name: those of the
\* registered definition, then the global ones.
ConstraintsFor(type_name) ==
    (IF type_name \in DOMAIN type_registry
     THEN type_registry[type_name].constraints ELSE <<>>)
    \o type_constraints

\* How many of the constraints fail on the value with one of the severities.
FailingWith(value, constraint_list, severities) ==
    Cardinality({ i \in DOMAIN constraint_list :
                    /\ IsSome(validate_constraint(value, constraint_list[i]))
                    /\ constraint_list[i].severity \in severities })

\* How many type mismatches the value shows: against the type name, and
\* against the base type of the registered definition.
Mismatches(value, type_name) ==
    (IF is_type_compatible(get_value_type(value), type_name) THEN 0 ELSE 1)
    + (IF /\ type_name \in DOMAIN type_registry
          /\ ~is_type_compatible(get_value_type(value),
                                 type_registry[type_name].base_type)
       THEN 1 ELSE 0)

\* C16: in validate_type every failing constraint, of the registered
\* TypeDefinition and of the global list, goes to warnings when its severity
\* is Warning and to errors when it is Error or Critical; is_valid is true
\* exactly when errors is empty; a type mismatch adds a TypeMismatch error and
\* the constraints are evaluated all the same.
C16_SeverityRouting ==
    type_result.op = "validate_type" =>
        LET result == type_result.ret.value
            value == type_result.value
            evaluated == ConstraintsFor(type_result.type_name)
        IN  /\ Len(result.warnings) = FailingWith(value, evaluated, {"Warning"})
            /\ Len(result.errors) =
                    Mismatches(value, type_result.type_name)
                    + FailingWith(value, evaluated, {"Error", "Critical"})
            /\ \A i \in DOMAIN result.warnings :
                    result.warnings[i].error_type # "TypeMismatch"
            /\ Cardinality({ i \in DOMAIN result.errors :
                                result.errors[i].error_type = "TypeMismatch" })
                    = Mismatches(value, type_result.type_name)
            /\ result.is_valid <=> result.errors = <<>>

\* A value of the wrong type, with a failing Warning and a failing Error
\* constraint: the mismatch and the constraint are both in errors.
C16_Witness ==
    /\ type_result.op = "validate_type"
    /\ Mismatches(type_result.value, type_result.type_name) = 1
    /\ Len(type_result.ret.value.errors) = 2
    /\ Len(type_result.ret.value.warnings) = 1
    /\ ~type_result.ret.value.is_valid

\* Only warnings: the result is valid.
C16_WitnessWarningsOnly ==
    /\ type_result.op = "validate_type"
    /\ type_result.ret.value.warnings # <<>>
    /\ type_result.ret.value.is_valid

(***************************************************************************)
(* Properties of the RateLimiter                                           *)
(***************************************************************************)

\* The acquire() calls that completed in the 60 seconds starting at one of
\* the completions.
CompletedInWindowFrom(i) ==
    { j \in DOMAIN completed :
        /\ completed[j] >= completed[i]
        /\ completed[j] < completed[i] + WindowSeconds }

\* available_permits() never exceeds the n the limiter was made with.
PermitsWithinTotal == available_permits <= total_permits

\* C17: RateLimiter::new(n) limits requests to n per minute: in every
\* 60-second window at most n acquire() calls complete, and
\* available_permits() never exceeds n.
C17_AtMostNPerMinute ==
    /\ PermitsWithinTotal
    /\ \A i \in DOMAIN completed :
            Cardinality(CompletedInWindowFrom(i)) <= requests_per_minute

(***************************************************************************)
(* Properties of RetryConfig and RetryExecutor                             *)
(***************************************************************************)

\* C18: should_retry(attempt) is true exactly when attempt <= max_retries;
\* execute calls the operation at most max_retries + 1 times, returns the
\* first Ok result without calling the operation again, and when every
\* attempt has failed ends with the error of the last attempt.
C18_RetryBound ==
    /\ retry_result.op = "should_retry" =>
            (retry_result.ret <=> retry_result.argument <= max_retries)
    /\ Len(calls) <= max_retries + 1
    /\ \A i \in 1..(Len(calls) - 1) : ~calls[i].ok
    /\ (calls # <<>> /\ retry_result.op = "execute") =>
            /\ Last(calls).ok =>
                    /\ retry_pc = "done"
                    /\ retry_result.ret = Last(calls)
            /\ (~Last(calls).ok /\ Len(calls) = max_retries + 1) =>
                    /\ retry_pc = "done"
                    /\ retry_result.ret = Err(ErrorOf(Len(calls)))
            /\ retry_pc = "done" =>
                    /\ retry_result.ret = Last(calls)
                    /\ Last(calls).ok \/ Len(calls) = max_retries + 1

\* With max_retries = 3 the operation has failed four times and execute has
\* returned the fourth error.
C18_Witness ==
    /\ max_retries = 3
    /\ retry_pc = "done"
    /\ retry_result.op = "execute"
    /\ Len(calls) = 4
    /\ \A i \in DOMAIN calls : ~calls[i].ok
    /\ retry_result.ret = Err(ErrorOf(4))

(***************************************************************************)
(* Properties of the dispatch of a schema node                             *)
(***************************************************************************)

\* The keys the dispatch looks at, in its order.
DispatchOrder == <<"$ref", "allOf", "anyOf", "oneOf", "not">>

\* A node without one of its keys, and with one of its keys only.
Without(node, key) == Obj([x \in DOMAIN node.o \ {key} |-> node.o[x]])
Only(node, key) == Obj([x \in DOMAIN node.o \cap {key} |-> node.o[x]])

\* The node that the claim says decides the validation of a node: the
\* referenced schema for a registered $ref; else, with $ref put aside, the
\* first combinator key alone; else the node itself, as a plain node.
Deciding(node) ==
    IF "$ref" \in DOMAIN node.o /\ node.o["$ref"].s \in DOMAIN validator_schemas
    THEN validator_schemas[node.o["$ref"].s]
    ELSE LET rest == Without(node, "$ref")
             taken == SelectSeq(DispatchOrder, LAMBDA key : key \in DOMAIN rest.o)
         IN  IF taken = <<>> THEN rest ELSE Only(rest, Head(taken))

\* C19: the dispatch of a schema node is first-match-wins in the order $ref,
\* allOf, anyOf, oneOf, not, plain node: a $ref naming a registered schema
\* validates the same document at the same path against that schema and
\* ignores the other keys; a $ref naming an unregistered schema gives no
\* error and the other keys are processed as if it were absent; a combinator
\* key that is taken gives the errors of that combinator alone.
C19_FirstMatchWins ==
    ( /\ validation_result.op = "validate_against_schema"
      /\ validation_result.returned ) =>
        LET data == validation_result.data
            errors == validation_result.ret.value.errors
        IN  \A node \in DispatchNodes :
                /\ validation_result.schema = node =>
                        errors = validate_value(data, Deciding(node), "")
                /\ validation_result.schema = AsProperty(node) =>
                        errors = validate_value(data, AsProperty(Deciding(node)), "")

\* A registered $ref with a failing sibling, as the schema of a property: the
\* document passes; it would fail the sibling.
C19_Witness ==
    /\ validation_result.op = "validate_against_schema"
    /\ validation_result.schema =
            AsProperty(Obj(("$ref" :> Str("base")) @@ [type |-> Str("number")]))
    /\ validation_result.data = Obj([id |-> Str("x")])
    /\ "base" \in DOMAIN validator_schemas
    /\ validator_schemas["base"] = StringSchema
    /\ validation_result.ret.value.errors = <<>>
    /\ validate_value(validation_result.data,
                      AsProperty(Obj([type |-> Str("number")])), "") # <<>>

(***************************************************************************)
(* Properties of additionalProperties                                      *)
(***************************************************************************)

\* The keys a node declares in properties: none when it has no properties.
Declared(node) ==
    IF has_object(node.o, "properties") THEN DOMAIN node.o["properties"].o ELSE {}

Occurrences(list, error) == Cardinality({i \in DOMAIN list : list[i] = error})

\* What the claim says of one node with additionalProperties, for an object
\* document at a path: with false, each undeclared key is flagged once and
\* no declared key is; with a schema, the errors of each undeclared key's
\* value against it, at "<path>.<key>", are among the errors.
AdditionalChecked(node, data, path, errors) ==
    LET additional_properties == node.o["additionalProperties"]
        extra == DOMAIN data.o \ Declared(node)
    IN  IF is_boolean(additional_properties) /\ ~additional_properties.b
        THEN \A key \in DOMAIN data.o :
                Occurrences(errors, SchemaError(path \o "." \o key,
                                                "ObjectConstraintViolation"))
                    = IF key \in extra THEN 1 ELSE 0
        ELSE \A key \in extra :
                LET expected == validate_value(data.o[key], additional_properties,
                                               path \o "." \o key)
                IN  \A i \in DOMAIN expected : Occurrences(errors, expected[i]) >= 1

\* The claim over the nodes of one set, at the root and under the property user.
AdditionalHolds(nodes) ==
    ( /\ validation_result.op = "validate_against_schema"
      /\ validation_result.returned ) =>
        LET data == validation_result.data
            errors == validation_result.ret.value.errors
        IN  \A node \in nodes :
                /\ (validation_result.schema = node /\ is_object(data)) =>
                        AdditionalChecked(node, data, "", errors)
                /\ ( /\ validation_result.schema = UnderUser(node)
                     /\ is_object(data)
                     /\ "user" \in DOMAIN data.o
                     /\ is_object(data.o["user"]) ) =>
                        AdditionalChecked(node, data.o["user"], "user", errors)

\* C20: for a plain node with additionalProperties = false and an object
\* document, every document key not declared in properties (all keys when
\* the node declares no properties) is flagged with one
\* ObjectConstraintViolation; when additionalProperties is a schema, each
\* such key's value is validated against it at "<node path>.<key>".
C20_AdditionalProperties == AdditionalHolds(AdditionalNodes)

\* The same for the nodes that declare properties.
C20_WithDeclaredProperties ==
    AdditionalHolds({node \in AdditionalNodes : has_object(node.o, "properties")})

(***************************************************************************)
(* Properties of the paths of integrity constraints                        *)
(***************************************************************************)

\* The value a dotted path names: each part is a key of an object.
RECURSIVE Traverse(_, _)
Traverse(value, parts) ==
    IF parts = <<>> THEN value
    ELSE IF value.k = "object" /\ Head(parts) \in DOMAIN value.o
         THEN Traverse(value.o[Head(parts)], Tail(parts))
         ELSE None

\* What the claim says a path resolves to.
Resolved(data, path) ==
    IF path \in {"", "root"} THEN data ELSE Traverse(data, split(path, "."))

\* The constraints held when check_integrity was called resolve as claimed,
\* for the paths of a set.
PathsResolve(paths) ==
    integrity_result.op = "check_integrity" =>
        \A i \in DOMAIN constraints :
            constraints[i].path \in paths =>
                get_value_by_path(integrity_result.data, constraints[i].path)
                    = Resolved(integrity_result.data, constraints[i].path)

\* C21: an integrity constraint whose path is "" or "root" is evaluated
\* against the whole document; any other path is resolved by dot-separated
\* traversal of nested object keys only.
C21_PathResolution == PathsResolve({c.path : c \in PathConstraints})

\* The same for every path but "".
C21_NonEmptyPaths == PathsResolve({c.path : c \in PathConstraints} \ {""})

(***************************************************************************)
(* Properties of the termination of a validation                           *)
(***************************************************************************)

\* The schema names a schema document mentions in a $ref, anywhere in it.
RECURSIVE Mentions(_)
Mentions(schema) ==
    IF schema.k = "object"
    THEN (IF "$ref" \in DOMAIN schema.o /\ schema.o["$ref"].k = "string"
          THEN {schema.o["$ref"].s} ELSE {})
         \cup UNION {Mentions(schema.o[key]) : key \in DOMAIN schema.o}
    ELSE IF schema.k = "array"
    THEN UNION {Mentions(schema.a[i]) : i \in DOMAIN schema.a}
    ELSE {}

\* The names a registered name mentions; an unregistered name leads nowhere.
Refers(name) ==
    IF name \in DOMAIN validator_schemas THEN Mentions(validator_schemas[name]) ELSE {}

\* The names reached from a set of names in at most k steps.
RECURSIVE ReachedFrom(_, _)
ReachedFrom(names, k) ==
    IF k = 0 THEN names
    ELSE ReachedFrom(names \cup UNION {Refers(name) : name \in names}, k - 1)

Registered == DOMAIN validator_schemas

\* A registered name that mentions itself, directly or through other names.
OnCycle(name) ==
    /\ name \in Registered
    /\ name \in ReachedFrom(Refers(name), Cardinality(Registered))

\* Some reference cycle of the schema table can be reached from the schema.
CycleReachable(schema) ==
    \E name \in ReachedFrom(Mentions(schema), Cardinality(Registered)) : OnCycle(name)

\* The schema is a $ref to a registered schema that is a $ref to a registered
\* schema, and so on for more than k steps: the chain of $ref nodes is cyclic.
RECURSIVE RefChainLonger(_, _)
RefChainLonger(schema, k) ==
    /\ schema.k = "object"
    /\ "$ref" \in DOMAIN schema.o
    /\ schema.o["$ref"].k = "string"
    /\ schema.o["$ref"].s \in Registered
    /\ k = 0 \/ RefChainLonger(validator_schemas[schema.o["$ref"].s], k - 1)

RefChainCyclic(schema) == RefChainLonger(schema, Cardinality(Registered))

\* The last call validated against a schema it found.
ValidatedFound ==
    /\ validation_result.op \in {"validate", "validate_against_schema"}
    /\ IsSome(validation_result.schema)

\* Without a reference cycle reachable from the schema the validation returns.
TerminatesWithoutCycle ==
    (ValidatedFound /\ ~CycleReachable(validation_result.schema))
        => validation_result.returned

\* C22: a validation returns for every document and schema from which no
\* reference cycle of the schema table can be reached; registration accepts
\* a schema that is a $ref to itself, and when the chain of $ref nodes that
\* starts at the schema is cyclic the validation never returns.
C22_Termination ==
    /\ TerminatesWithoutCycle
    /\ (ValidatedFound /\ RefChainCyclic(validation_result.schema))
            => ~validation_result.returned

\* C22 as stated: the validation never returns whenever the registered
\* schema refers to itself through $ref.
C22_SelfReferenceNeverReturns ==
    /\ TerminatesWithoutCycle
    /\ ( /\ validation_result.op = "validate"
         /\ validation_result.schema_name \in Registered
         /\ OnCycle(validation_result.schema_name) )
            => ~validation_result.returned

\* "a" is registered as a $ref to "b" and "b" as a $ref to "a", and validate
\* against "a" has not returned.
C22_Witness ==
    /\ validation_result.op = "validate"
    /\ validation_result.schema_name = "a"
    /\ Registered = {"a", "b"}
    /\ validator_schemas["a"] = Ref("b")
    /\ validator_schemas["b"] = Ref("a")
    /\ ~validation_result.returned

(***************************************************************************)
(* Properties of the order of the errors                                   *)
(***************************************************************************)

RECURSIVE Flatten(_)
Flatten(lists) ==
    IF lists = <<>> THEN <<>> ELSE Head(lists) \o Flatten(Tail(lists))

\* The errors in the order the claim gives: at a plain node type, required,
\* properties and additionalProperties in the document's key order, items by
\* ascending index, leaf constraints; the branches of a combinator from left
\* to right.
RECURSIVE ExpectedErrors(_, _, _)
ExpectedErrors(data, schema, path) ==
    IF schema.k # "object" THEN <<>>
    ELSE
    LET node == schema.o
        branches(key) ==
            [i \in 1..Len(node[key].a) |-> ExpectedErrors(data, node[key].a[i], path)]
        failing(key) == SelectSeq(branches(key), LAMBDA found : found # <<>>)
        document_keys == keys(data)
        declared == IF has_object(node, "properties")
                    THEN node["properties"].o ELSE EmptyMap
    IN
    IF has_str(node, "$ref") /\ node["$ref"].s \in DOMAIN validator_schemas
    THEN ExpectedErrors(data, validator_schemas[node["$ref"].s], path)
    ELSE IF has_array(node, "allOf") THEN Flatten(branches("allOf"))
    ELSE IF has_array(node, "anyOf")
    THEN IF \E i \in DOMAIN branches("anyOf") : branches("anyOf")[i] = <<>>
         THEN <<>> ELSE Flatten(branches("anyOf"))
    ELSE IF has_array(node, "oneOf")
    THEN IF Len(failing("oneOf")) = Len(branches("oneOf")) - 1
         THEN <<>> ELSE Flatten(failing("oneOf"))
    ELSE IF "not" \in DOMAIN node
    THEN IF ExpectedErrors(data, node["not"], path) = <<>>
         THEN <<SchemaError(path, "CustomValidationFailed")>> ELSE <<>>
    ELSE
        (IF has_str(node, "type")
         THEN SchemaValidator_validate_type(data, node["type"].s, path) ELSE <<>>)
        \o (IF has_array(node, "required") /\ data.k = "object"
            THEN required_errors(data, node["required"].a, path) ELSE <<>>)
        \o (IF data.k = "object"
            THEN Flatten([i \in 1..Len(document_keys) |->
                    LET key == document_keys[i] IN
                    IF key \in DOMAIN declared
                    THEN ExpectedErrors(data.o[key], declared[key],
                                        IF path = "" THEN key ELSE path \o "." \o key)
                    ELSE <<>>])
            ELSE <<>>)
        \o (IF /\ data.k = "object" /\ has_object(node, "properties")
               /\ "additionalProperties" \in DOMAIN node
            THEN Flatten([i \in 1..Len(document_keys) |->
                    LET key == document_keys[i]
                        additional == node["additionalProperties"]
                    IN
                    IF key \in DOMAIN declared THEN <<>>
                    ELSE IF additional = Bool(FALSE)
                    THEN <<SchemaError(path \o "." \o key, "ObjectConstraintViolation")>>
                    ELSE IF additional.k = "object"
                    THEN ExpectedErrors(data.o[key], additional, path \o "." \o key)
                    ELSE <<>>])
            ELSE <<>>)
        \o (IF "items" \in DOMAIN node /\ data.k = "array"
            THEN Flatten([i \in 1..Len(data.a) |->
                    ExpectedErrors(data.a[i], node["items"],
                                   path \o "[" \o ToString(i - 1) \o "]")])
            ELSE <<>>)
        \o validate_constraints(data, node, path)

C23_WitnessBranches ==
    /\ validation_result.op = "validate_against_schema"
    /\ validation_result.schema = OneOf(NumberSchema, DigitsSchema)
    /\ validation_result.data = Str("x")
    /\ validation_result.ret.value.errors =
            << SchemaError("", "InvalidType"), SchemaError("", "PatternMismatch") >>

(***************************************************************************)
(* Properties of generate_suggestions                                      *)
(***************************************************************************)

\* The generic suggestion of an error type: it depends on the type alone.
GenericFor(error_type) ==
    generate_generic_suggestion(ValidationError(error_type, "", "", "Info"))

\* The error types with a template of their own, and the types that share one.
SpecificTypes ==
    { t \in ValidationErrorTypes :
        \A u \in ValidationErrorTypes \ {t} : GenericFor(u) # GenericFor(t) }

GenericTemplates == {GenericFor(t) : t \in ValidationErrorTypes}

\* The claim, for a number of specific templates next to the one catch-all.
SuggestionsAreDeduplicated(specific) ==
    /\ Cardinality(SpecificTypes) = specific
    /\ Cardinality(GenericTemplates) = specific + 1
    /\ reporter_result.op = "generate_suggestions" =>
        LET errors == reporter_result.argument
            suggestions == reporter_result.ret
        IN  /\ \A i, j \in DOMAIN suggestions :
                    i < j => str_less(suggestions[i].title, suggestions[j].title)
            /\ { suggestions[i].title : i \in DOMAIN suggestions }
                    = { GenericFor(errors[i].error_type).title : i \in DOMAIN errors }
            /\ \A i \in DOMAIN suggestions :
                    \E j \in DOMAIN errors :
                        suggestions[i] = GenericFor(errors[j].error_type)
            /\ errors # <<>> => suggestions # <<>>
            /\ reporter_errors = errors
    /\ reporter_result.op = "generate_suggestion" =>
        ( (\A key \in DOMAIN engine_patterns :
                ~matches_pattern(reporter_result.argument, key))
            => reporter_result.ret = GenericFor(reporter_result.argument.error_type) )

\* C24: generate_suggestions returns, for the errors held, a list sorted by
\* title in which no two suggestions share a title and which has a suggestion
\* for every title some error produces (non-empty when an error is held); an
\* error matching no registered pattern gets the generic suggestion of its
\* error_type, of which there are four specific templates and one catch-all;
\* the call leaves the errors unchanged.
C24_Suggestions == SuggestionsAreDeduplicated(4)

\* C24 as stated: five specific templates and one catch-all.
C24_FiveSpecificTemplates == SuggestionsAreDeduplicated(5)

\* Three errors held, two of them with the catch-all title: two suggestions.
C24_Witness ==
    /\ reporter_result.op = "generate_suggestions"
    /\ Len(reporter_errors) = 3
    /\ reporter_errors[3].error_type = "RequiredFieldMissing"
    /\ reporter_errors[1].error_type = "FormatError"
    /\ reporter_errors[2].error_type = "InvalidValue"
    /\ Len(reporter_result.ret) = 2
    /\ reporter_result.ret[1].title = "Add Required Field"
    /\ reporter_result.ret[2].title = "Fix Validation Error"


RegisteredNames == {name \in RegistryNames : registration_log[name] # <<>>}

\* C25: two entries with different (name, version) pairs never collide:
\* register_schema is refused as a duplicate only when that very pair is
\* registered, get_schema(n, v) only returns an entry named n with version v,
\* and list_schemas is exactly the set of registered names, also for names and
\* versions that contain ':'.
C25_NoKeyCollision ==
    /\ ( /\ registry_result.op = "register_schema"
         /\ registry_result.ret =
                Err("Schema '{}' version '{}' already exists") )
       => InSeq(registry_result.version,
                registration_log[registry_result.name])
    /\ \A pair \in RegistryPairs :
          LET found == get_schema(pair[1], pair[2])
          IN  found.ok => ( /\ found.value.name = pair[1]
                            /\ found.value.version = pair[2] )
    /\ list_schemas = RegisteredNames

\* C26: after any sequence of register_schema and remove_schema calls, every
\* name in the dependencies of a stored entry has at least one registered
\* version.
C26_DependenciesStayRegistered ==
    \A m \in StoredEntries :
        \A i \in DOMAIN m.dependencies : HasVersion(m.dependencies[i])

\* C26, the step remove_schema takes: a removal in a registry whose
\* dependencies all have a registered version leaves one where they still do.
C26_RemoveKeepsDependencies ==
    [][ ( /\ registry_result'.op = "remove_schema"
          /\ C26_DependenciesStayRegistered )
        => C26_DependenciesStayRegistered' ]_vars

VersionEntries(name, version) ==
    IF name \in DOMAIN versions
    THEN {i \in DOMAIN versions[name] : versions[name][i].version = version}
    ELSE {}

StoredAgreesWithHistory ==
    /\ \A pair \in LifecyclePairs :
          get_schema(pair[1], pair[2]).ok
              <=> Cardinality(VersionEntries(pair[1], pair[2])) = 1
    /\ get_statistics.total_schemas = get_statistics.total_versions
    /\ get_statistics.deprecated_count =
          Cardinality({m \in StoredEntries : m.is_deprecated})

\* C27: after any sequence of register_schema, update_schema, deprecate_schema
\* and remove_schema calls, get_schema(name, version) succeeds exactly when
\* the version history of the name holds one entry with that version,
\* get_statistics reports total_schemas = total_versions and deprecated_count
\* is the number of stored entries with is_deprecated set; a deprecation sets
\* the flag of its entry and removes nothing.
C27_StoredAgreesWithHistory ==
    [][ /\ StoredAgreesWithHistory'
        /\ ( /\ registry_result'.op = "deprecate_schema"
             /\ registry_result'.ret.ok )
           => LET key == schema_key(registry_result'.name, registry_result'.version)
              IN  /\ DOMAIN registry_schemas' = DOMAIN registry_schemas
                  /\ registry_schemas'[key].is_deprecated
                  /\ versions' = versions /\ tags' = tags ]_vars

Updating == registry_result'.op = "update_schema"

\* C28: after a successful update_schema(name, version, new_schema) the
\* document recorded for that version is new_schema in get_schema(name,
\* version) and in the matching entry of get_schema_versions(name), and
\* nothing else changes; a failing update leaves the registry unchanged.
C28_UpdateReplacesDocument ==
    [][ Updating =>
        LET name == registry_result'.name
            version == registry_result'.version
            new_schema == registry_result'.metadata
            key == schema_key(name, version)
        IN  IF registry_result'.ret.ok
            THEN /\ registry_schemas'[key].schema = new_schema
                 /\ \A i \in DOMAIN versions'[name] :
                        versions'[name][i].version = version
                            => versions'[name][i].schema = new_schema
                 /\ DOMAIN registry_schemas' = DOMAIN registry_schemas
                 /\ \A other \in DOMAIN registry_schemas \ {key} :
                        registry_schemas'[other] = registry_schemas[other]
                 /\ registry_schemas' =
                        [registry_schemas EXCEPT ![key].schema = new_schema]
                 /\ DOMAIN versions' = DOMAIN versions
                 /\ \A n \in DOMAIN versions :
                        /\ Len(versions'[n]) = Len(versions[n])
                        /\ \A i \in DOMAIN versions[n] :
                              /\ versions'[n][i].version = versions[n][i].version
                              /\ (n # name \/ versions[n][i].version # version)
                                     => versions'[n][i] = versions[n][i]
                 /\ tags' = tags
            ELSE UNCHANGED <<registry_schemas, versions, tags>> ]_vars

\* C28 without the version history: the stored entry carries new_schema, all
\* the rest of the registry is as it was.
C28_UpdateReplacesStoredDocument ==
    [][ Updating =>
        LET key == schema_key(registry_result'.name, registry_result'.version)
        IN  /\ registry_result'.ret.ok =>
                  registry_schemas' =
                      [registry_schemas EXCEPT
                          ![key].schema = registry_result'.metadata]
            /\ ~registry_result'.ret.ok => registry_schemas' = registry_schemas
            /\ UNCHANGED <<versions, tags>> ]_vars

BuiltinTypeNames ==
    {"null", "boolean", "number", "integer", "string", "array", "object"}

ValidatedType == type_result.op = "validate_type"

\* The value meets the registered definition: its base type and every one of
\* its constraints.
MeetsDefinition(value, type_def) ==
    /\ get_value_type(value) = type_def.base_type
    /\ \A i \in DOMAIN type_def.constraints :
          validate_constraint(value, type_def.constraints[i]) = None

\* C29: validate_type(value, type_name) returns is_valid = true only if
\* type_name is the value's runtime type tag, or "integer" for a number; so
\* for a registered definition whose name is none of the seven tag names and
\* "integer", the result carries a TypeMismatch at "root" and is_valid = false,
\* whatever the value.
C29_CustomTypeNeverValid ==
    ValidatedType =>
        LET value == type_result.value
            type_name == type_result.type_name
            result == type_result.ret.value
        IN  /\ result.is_valid =>
                  \/ type_name = get_value_type(value)
                  \/ get_value_type(value) = "number" /\ type_name = "integer"
            /\ ( /\ type_name \in DOMAIN type_registry
                 /\ type_name \notin BuiltinTypeNames )
               => /\ ~result.is_valid
                  /\ InSeq(TypeError("root", "TypeMismatch"), result.errors)

\* A value of the definition's base type that meets all its constraints, and
\* no constraint of the validator fails: the mismatch is the only error.
C29_Witness ==
    /\ ValidatedType
    /\ type_result.type_name \in DOMAIN type_registry
    /\ type_result.type_name \notin BuiltinTypeNames
    /\ MeetsDefinition(type_result.value, type_registry[type_result.type_name])
    /\ type_result.ret.value.errors = <<TypeError("root", "TypeMismatch")>>
    /\ ~type_result.ret.value.is_valid

\* A number validated as "integer" is valid.
C29_WitnessInteger ==
    /\ ValidatedType
    /\ type_result.type_name = "integer"
    /\ get_value_type(type_result.value) = "number"
    /\ type_result.ret.value.is_valid

\* The path does not resolve: a key is missing or a part is asked of a value
\* that is not an object.
Unresolved(data, path) ==
    path # "root" /\ Traverse(data, split(path, ".")) = None

ViolationTypeOf(constraint_type) ==
    CASE constraint_type = "NotNull" -> "NullConstraintViolation"
      [] constraint_type = "Unique" -> "DuplicateKeyViolation"
      [] constraint_type = "ForeignKey" -> "ReferentialIntegrityViolation"
      [] constraint_type = "Range" -> "RangeViolation"
      [] constraint_type = "Format" -> "FormatViolation"
      [] OTHER -> "none"

CheckedIntegrity == integrity_result.op = "check_integrity"

\* The constraints held at the call whose path resolves in the document.
Resolving ==
    {i \in DOMAIN constraints :
        ~Unresolved(integrity_result.data, constraints[i].path)}

\* C30: a constraint whose path does not resolve in the document produces no
\* violation, whatever its kind (a NotNull constraint passes when the field
\* is absent), and a constraint contributes at most one violation to a
\* check_integrity call: the violations are no more than the constraints
\* whose path resolves, and each is that of one of them.
C30_UnresolvedPathsPass ==
    CheckedIntegrity =>
        LET found == integrity_result.result.violations IN
        /\ Len(found) <= Cardinality(Resolving)
        /\ \A j \in DOMAIN found :
              \E i \in Resolving :
                  /\ found[j].path = constraints[i].path
                  /\ found[j].severity = constraints[i].severity
                  /\ found[j].violation_type =
                        ViolationTypeOf(constraints[i].constraint_type)
        /\ Resolving = {} => integrity_result.result.is_valid

\* A NotNull constraint on an absent field next to a constraint that fails:
\* the one violation is the other constraint's.
C30_Witness ==
    /\ CheckedIntegrity
    /\ \E i \in DOMAIN constraints :
          /\ constraints[i].constraint_type = "NotNull"
          /\ i \notin Resolving
    /\ Len(integrity_result.result.violations) = 1
    /\ Len(constraints) = 2

\* Constraints of two other kinds, none resolving: the document is valid.
C30_WitnessKinds ==
    /\ CheckedIntegrity
    /\ Resolving = {}
    /\ \E i, j \in DOMAIN constraints :
          /\ constraints[i].constraint_type = "Format"
          /\ constraints[j].constraint_type = "Unique"
    /\ integrity_result.result.is_valid
====
